---- MODULE Spec2Model ----
(***************************************************************************)
(* Model of stm32_modul/Core/Src/main.c: the AT command/response state     *)
(* machine that drives the ESP modem over USART2, the interrupt-fed        *)
(* receive buffer, the button gesture hand-off, the connection / send      *)
(* orchestrator and the sensor data-ready dispatch.                        *)
(*                                                                         *)
(* The foreground (main's while(1)) is a sequence of steps selected by pc; *)
(* the interrupt handlers (USART2 receive complete, EXTI, SysTick) are     *)
(* actions that may run between any two foreground steps.  A C function    *)
(* is an operator from a record of the globals it touches to the record    *)
(* after the call, so that calls compose in the order the code makes them. *)
(* CDC_Transmit_FS logging and GPIO LED toggles have no effect on the      *)
(* modelled state and are left out.                                        *)
(***************************************************************************)
EXTENDS Integers, Sequences, FiniteSets, TLC

(* ------------------------------------------------------------------ *)
(* Program constants                                                    *)
(* ------------------------------------------------------------------ *)
TIMEOUT == 0
SUCCESS == 1
ERROR == 2
WAITING == 3
IDLE == 4
SEND_REQUEST == 5

AT_TEST == 0
AT_SET_CONNECT_MODE == 1
AT_SET_MAX_CONNECTIONS == 2
AT_START_SERVER == 3
AT_SEND_HTML_HEADER == 4
AT_SEND_HTML == 5
AT_SEND_CONNECT_REQUEST == 6

MODE_NONE == 0
MODE_BINARY_UART == 1
MODE_ASCII_UART == 2
MODE_BINARY_CDC == 3
MODE_ASCII_CDC == 4

\* The source buffer is 2048 * 4 bytes; the model keeps the code's
\* arithmetic on RX_BUFFER_SIZE and scales the size down.
RX_BUFFER_SIZE == 64

\* Response timeout passed to Is_Timedout by main.
RESPONSE_TIMEOUT == 5000
\* Short/long press threshold of HAL_GPIO_EXTI_Callback.
LONG_PRESS == 500
\* MIN_INTERVAL of Send_Data_To_Server, MIN_SEND_INTERVAL of Transmit_Data_ASCII.
MIN_INTERVAL == 500
MIN_SEND_INTERVAL == 100
\* a retry limit that lets a fourth CIPSEND through
MAX_RETRIES_OneMore == 3 + 1

\* MAX_RETRIES of Send_Data_To_Server.
MAX_RETRIES == 3

\* uint16_t / uint8_t arithmetic
U16 == 65536
U8 == 256

\* uint32_t values are pairs <<high half, low half>> of 16-bit halves, so
\* that the arithmetic modulo 2^32 of the tick counter is kept exactly
T32(n) == <<(n \div U16) % U16, n % U16>>
Add32(a, n) ==
    LET lo == a[2] + (n % U16)
        hi == a[1] + (n \div U16) + (lo \div U16)
    IN <<hi % U16, lo % U16>>
Sub32(a, b) ==
    LET lo == a[2] - b[2]
        hi == a[1] - b[1] - (IF lo < 0 THEN 1 ELSE 0)
    IN <<(hi + U16) % U16, (lo + U16) % U16>>
Lt32(a, b) == a[1] < b[1] \/ (a[1] = b[1] /\ a[2] < b[2])

(* ------------------------------------------------------------------ *)
(* Bounds of the model                                                  *)
(* ------------------------------------------------------------------ *)
\* frames the modem may emit, SysTick advances, button edges, data-ready
\* interrupts and handled samples in one behaviour
MaxFrames == 1
MaxTicks == 1
MaxEdges == 2
MaxDataReady == 2

(* ------------------------------------------------------------------ *)
(* Bytes and C strings                                                  *)
(* ------------------------------------------------------------------ *)
NUL == "NUL"
CR == "\r"
LF == "\n"
NULL == -1
NotArmed == -1

BufIdx == 0 .. (RX_BUFFER_SIZE - 1)
ZeroBuffer == [i \in BufIdx |-> NUL]

\* index of the terminator of the C string that starts at buf[from];
\* RX_BUFFER_SIZE when the buffer holds no NUL at or after from
CStrEnd(buf, from) ==
    IF \E i \in from .. (RX_BUFFER_SIZE - 1) : buf[i] = NUL
    THEN CHOOSE i \in from .. (RX_BUFFER_SIZE - 1) :
             buf[i] = NUL /\ \A j \in from .. (i - 1) : buf[j] # NUL
    ELSE RX_BUFFER_SIZE

strlen(buf) == CStrEnd(buf, 0)

MatchAt(buf, i, pat) == \A j \in 1 .. Len(pat) : buf[i + j - 1] = pat[j]

\* strstr(&buf[from], pat): index of the first occurrence inside the C
\* string that starts at from, or NULL
StrStrAt(buf, from, pat) ==
    LET last == CStrEnd(buf, from) - Len(pat)
        hits == {i \in from .. last : MatchAt(buf, i, pat)}
    IN IF hits = {} THEN NULL
       ELSE CHOOSE i \in hits : \A k \in hits : i <= k

strstr(buf, pat) == StrStrAt(buf, 0, pat)

\* the bytes buf[from .. to-1]
Slice(buf, from, to) == [k \in 1 .. (to - from) |-> buf[from + k - 1]]

\* the C string held by the buffer, as a sequence
CStr(buf) == Slice(buf, 0, strlen(buf))

\* response markers searched by the code
S_CRLFCRLF == <<CR, LF, CR, LF>>
S_OK == <<"O", "K">>
S_ERROR == <<"E", "R", "R", "O", "R">>
S_GET_SSID == <<"G", "E", "T", " ", "/", "?", "s", "s", "i", "d", "=">>
S_SSID == <<"s", "s", "i", "d", "=">>
S_PASSWORD == <<"p", "a", "s", "s", "w", "o", "r", "d", "=">>
S_AMP == <<"&">>
S_SPACE == <<" ">>
S_STA_CONNECTED == <<"+", "S", "T", "A", "_", "C", "O", "N", "N", "E", "C", "T", "E", "D">>
S_STA_DISCONNECTED ==
    <<"+", "S", "T", "A", "_", "D", "I", "S", "C", "O", "N", "N", "E", "C", "T", "E", "D">>
S_0_CONNECT == <<"0", ",", "C", "O", "N", "N", "E", "C", "T">>
S_0_CLOSED == <<"0", ",", "C", "L", "O", "S", "E", "D">>
S_CONNECT == <<"C", "O", "N", "N", "E", "C", "T">>
S_CLOSED == <<"C", "L", "O", "S", "E", "D">>
S_STATUS4 == <<"S", "T", "A", "T", "U", "S", ":", "4">>
S_STATUS5 == <<"S", "T", "A", "T", "U", "S", ":", "5">>
S_PROMPT == <<">">>
S_SEND_OK == <<"S", "E", "N", "D", " ", "O", "K">>

(* ------------------------------------------------------------------ *)
(* State                                                                *)
(* ------------------------------------------------------------------ *)
VARIABLES
    \* globals of main.c
    response_status, has_response_changed, setup_stage, tick_when_sent,
    rx_buffer, rx_index,
    button_press_start, button_pressed, button_action_pending, button_action_type,
    transmission_mode, connection_established,
    data_ready_mag, data_ready_acc, data_ready_gyr, packet_number,
    is_client_connected, is_client_requesting_page,
    \* function statics and the locals that live across a blocking wait
    sds_last_send_time, tda_last_send_time, start_time, retries, press_duration,
    \* HAL / hardware
    uwTick, rx_ptr, uart_tx, cdc_tx, pin, wire,
    \* foreground position
    pc, ret,
    \* environment budgets and observation
    frames_left, ticks_left, edges_left, drdy_left, obs


vars == <<response_status, has_response_changed, setup_stage, tick_when_sent,
          rx_buffer, rx_index,
          button_press_start, button_pressed, button_action_pending, button_action_type,
          transmission_mode, connection_established,
          data_ready_mag, data_ready_acc, data_ready_gyr, packet_number,
          is_client_connected, is_client_requesting_page,
          sds_last_send_time, tda_last_send_time, start_time, retries, press_duration,
          uwTick, rx_ptr, uart_tx, cdc_tx, pin, wire, pc, ret,
          frames_left, ticks_left, edges_left, drdy_left, obs>>

\* the globals written by the command / response functions, as one record
St == [response_status |-> response_status,
       has_response_changed |-> has_response_changed,
       setup_stage |-> setup_stage,
       tick_when_sent |-> tick_when_sent,
       rx_buffer |-> rx_buffer,
       rx_index |-> rx_index,
       rx_ptr |-> rx_ptr,
       uart_tx |-> uart_tx,
       connection_established |-> connection_established,
       is_client_connected |-> is_client_connected,
       is_client_requesting_page |-> is_client_requesting_page,
       \* observation only, never read by the program
       obs |-> obs]

\* a C local: the value v is computed once and named in the rest of the body
Bind(v, Body(_)) == CHOOSE r \in {Body(t) : t \in {v}} : TRUE

\* the globals after a step take the values of the record the step computed
Commit(s) ==
    \E t \in {s} :
        /\ response_status' = t.response_status
        /\ has_response_changed' = t.has_response_changed
        /\ setup_stage' = t.setup_stage
        /\ tick_when_sent' = t.tick_when_sent
        /\ rx_buffer' = t.rx_buffer
        /\ rx_index' = t.rx_index
        /\ rx_ptr' = t.rx_ptr
        /\ uart_tx' = t.uart_tx
        /\ connection_established' = t.connection_established
        /\ is_client_connected' = t.is_client_connected
        /\ is_client_requesting_page' = t.is_client_requesting_page
        /\ obs' = t.obs

buttonVars == <<button_press_start, button_pressed, button_action_pending,
                button_action_type, press_duration, pin>>
sensorVars == <<data_ready_mag, data_ready_acc, data_ready_gyr, packet_number, cdc_tx>>
sendVars == <<sds_last_send_time, tda_last_send_time, start_time, retries>>
budgetVars == <<frames_left, ticks_left, edges_left, drdy_left>>

(* ------------------------------------------------------------------ *)
(* HAL primitives used by main.c                                        *)
(* ------------------------------------------------------------------ *)
HAL_GetTick == uwTick

\* an abort that leaves the interrupt-driven reception running
HAL_UART_AbortReceive_IT_KeepsReception(s) == s

\* stops the interrupt-driven reception: no receive-complete callback
\* can run until reception is armed again
HAL_UART_AbortReceive_IT(s) == [s EXCEPT !.rx_ptr = NotArmed]

\* arms the reception of one byte into rx_buffer[p]; HAL_BUSY (no
\* effect) while a reception is already armed
HAL_UART_Receive_IT(s, p) ==
    IF s.rx_ptr = NotArmed THEN [s EXCEPT !.rx_ptr = p] ELSE s

\* blocking transmit of a command or payload to the modem
HAL_UART_Transmit(s, data) == [s EXCEPT !.uart_tx = data]

Command(text) == [cmd |-> text, args |-> <<>>]
NoCommand == Command("")

(* ------------------------------------------------------------------ *)
(* Command / response functions                                         *)
(* ------------------------------------------------------------------ *)
Change_Response_Status(s, new_status) ==
    IF new_status < 0 \/ new_status > 5
    THEN s
    ELSE [s EXCEPT !.has_response_changed = 1, !.response_status = new_status]

Clear_RX_Buffer(s) ==
    LET a == HAL_UART_AbortReceive_IT(s)
        b == [a EXCEPT !.rx_buffer = ZeroBuffer, !.rx_index = 0]
    IN HAL_UART_Receive_IT(b, 0)

\* Send_Command without the call of Clear_RX_Buffer
Send_Command_KeepsBuffer(s, cmd) ==
    LET a == HAL_UART_AbortReceive_IT(s)
        c == [a EXCEPT !.tick_when_sent = HAL_GetTick]
        d == Change_Response_Status(c, WAITING)
        e == HAL_UART_Transmit(d, cmd)
        f == HAL_UART_Receive_IT(e, e.rx_index)
    IN [f EXCEPT !.obs.sent_stage = f.setup_stage]

Send_Command(s, cmd) ==
    LET a == HAL_UART_AbortReceive_IT(s)
        b == Clear_RX_Buffer(a)
        c == [b EXCEPT !.tick_when_sent = HAL_GetTick]
        d == Change_Response_Status(c, WAITING)
        e == HAL_UART_Transmit(d, cmd)
        f == HAL_UART_Receive_IT(e, e.rx_index)
    IN [f EXCEPT !.obs.sent_stage = f.setup_stage]

\* Is_Timedout with the operands of the comparison exchanged
Is_Timedout_Reversed(timeout_ms) ==
    IF Lt32(Sub32(HAL_GetTick, tick_when_sent), T32(timeout_ms)) THEN 1 ELSE 0

Is_Timedout(timeout_ms) ==
    IF Lt32(T32(timeout_ms), Sub32(HAL_GetTick, tick_when_sent)) THEN 1 ELSE 0

html_page2 == Command("HTTP/1.1 200 OK ... Wi-Fi Config form")

Send_HTML_Header(s) == Send_Command(s, Command("AT+CIPSEND=0,334\r\n"))

Configure_ESP_As_Access_Point(s) ==
    CASE s.setup_stage = AT_TEST -> Send_Command(s, Command("AT\r\n"))
      [] s.setup_stage = AT_SET_CONNECT_MODE -> Send_Command(s, Command("AT+CWMODE=3\r\n"))
      [] s.setup_stage = AT_SET_MAX_CONNECTIONS -> Send_Command(s, Command("AT+CIPMUX=1\r\n"))
      [] s.setup_stage = AT_START_SERVER -> Send_Command(s, Command("AT+CIPSERVER=1,80\r\n"))
      [] s.setup_stage = AT_SEND_HTML_HEADER -> Send_HTML_Header(s)
      [] s.setup_stage = AT_SEND_HTML -> Send_Command(s, html_page2)
      [] OTHER -> s

Send_Connect_Request(s, ssid, password) ==
    Send_Command(s, [cmd |-> "AT+CWJAP=\"%s\",\"%s\"\r\n", args |-> <<ssid, password>>])

\* char ssid[32] = {0}; char password[64] = {0};
SSID_SIZE == 32
PASSWORD_SIZE == 64

\* what a read past the end of a local array may find on the stack
\* before the first zero byte
StackBytes == {<<>>, <<"?">>}

\* strncpy(field, buf + from, n) into a zero-initialised char field[size],
\* then the field read as a C string: the first n bytes of the string at
\* from; with size or more bytes copied the field holds no terminator
\* and the read runs on into the bytes that follow it
Strncpy(buf, from, n, size, stack) ==
    LET end == CStrEnd(buf, from)
        stop == IF from + n < end THEN from + n ELSE end
    IN IF stop - from < size
       THEN Slice(buf, from, stop)
       ELSE Slice(buf, from, stop) \o stack

Handle_Client_Request(s, stack) ==
    IF strstr(s.rx_buffer, S_GET_SSID) = NULL
    THEN s
    ELSE Bind(strstr(s.rx_buffer, S_SSID) + 5, LAMBDA ssid_start :
         \* a frame without "password=" makes password_start NULL + 9;
         \* the model reads an empty string there
         Bind(IF strstr(s.rx_buffer, S_PASSWORD) = NULL
              THEN CStrEnd(s.rx_buffer, 0)
              ELSE strstr(s.rx_buffer, S_PASSWORD) + 9, LAMBDA password_start :
         Bind(StrStrAt(s.rx_buffer, ssid_start, S_AMP), LAMBDA end_ssid :
         Bind(StrStrAt(s.rx_buffer, password_start, S_SPACE), LAMBDA end_password :
         Send_Connect_Request(
             Clear_RX_Buffer(s),
             IF end_ssid # NULL
             THEN Strncpy(s.rx_buffer, ssid_start, end_ssid - ssid_start,
                          SSID_SIZE, stack)
             ELSE Strncpy(s.rx_buffer, ssid_start, SSID_SIZE - 1, SSID_SIZE, stack),
             IF end_password # NULL
             THEN Strncpy(s.rx_buffer, password_start, end_password - password_start,
                          PASSWORD_SIZE, stack)
             ELSE Strncpy(s.rx_buffer, password_start, PASSWORD_SIZE - 1,
                          PASSWORD_SIZE, stack))))))

\* the value returned by Has_Response_Finished
Has_Response_Finished(s) ==
    IF s.response_status >= TIMEOUT /\ s.response_status < WAITING THEN 1 ELSE 0

\* its side effect under DEBUG: the change flag is consumed by the log
Log_Response_Status_Change(s) ==
    IF s.has_response_changed = 1 THEN [s EXCEPT !.has_response_changed = 0] ELSE s

\* Set_Setup_Stage without the range check
Set_Setup_Stage_Unchecked(s, new_stage) == [s EXCEPT !.setup_stage = new_stage]

Set_Setup_Stage(s, new_stage) ==
    IF new_stage < 0 \/ new_stage > 6
    THEN s
    ELSE [s EXCEPT !.setup_stage = new_stage]

\* Handle_Response with the successor of AT_START_SERVER off by one stage
Handle_Response_SkipsHeader(s) ==
    IF s.response_status # SUCCESS
    THEN Change_Response_Status(Clear_RX_Buffer(s), IDLE)
    ELSE LET a == CASE s.setup_stage = AT_TEST -> Set_Setup_Stage(s, AT_SET_CONNECT_MODE)
                    [] s.setup_stage = AT_SET_CONNECT_MODE ->
                           Set_Setup_Stage(s, AT_SET_MAX_CONNECTIONS)
                    [] s.setup_stage = AT_SET_MAX_CONNECTIONS ->
                           Set_Setup_Stage(s, AT_START_SERVER)
                    [] s.setup_stage = AT_START_SERVER ->
                           Set_Setup_Stage(s, AT_SEND_HTML)
                    [] s.setup_stage = AT_SEND_HTML_HEADER ->
                           Set_Setup_Stage(s, AT_SEND_HTML)
                    [] s.setup_stage = AT_SEND_HTML ->
                           Set_Setup_Stage(s, AT_SEND_HTML_HEADER)
                    [] OTHER -> s
         IN Change_Response_Status(Clear_RX_Buffer(a), IDLE)

\* Handle_Response whose failure path forgets Clear_RX_Buffer
Handle_Response_KeepsBuffer(s) ==
    IF s.response_status # SUCCESS
    THEN Change_Response_Status(s, IDLE)
    ELSE LET a == CASE s.setup_stage = AT_TEST -> Set_Setup_Stage(s, AT_SET_CONNECT_MODE)
                    [] s.setup_stage = AT_SET_CONNECT_MODE ->
                           Set_Setup_Stage(s, AT_SET_MAX_CONNECTIONS)
                    [] s.setup_stage = AT_SET_MAX_CONNECTIONS ->
                           Set_Setup_Stage(s, AT_START_SERVER)
                    [] s.setup_stage = AT_START_SERVER ->
                           Set_Setup_Stage(s, AT_SEND_HTML_HEADER)
                    [] s.setup_stage = AT_SEND_HTML_HEADER ->
                           Set_Setup_Stage(s, AT_SEND_HTML)
                    [] s.setup_stage = AT_SEND_HTML ->
                           Set_Setup_Stage(s, AT_SEND_HTML_HEADER)
                    [] OTHER -> s
         IN Change_Response_Status(Clear_RX_Buffer(a), IDLE)

\* Handle_Response that resets the status to TIMEOUT instead of IDLE
Handle_Response_ResetsToTimeout(s) ==
    IF s.response_status # SUCCESS
    THEN Change_Response_Status(Clear_RX_Buffer(s), IDLE)
    ELSE LET a == CASE s.setup_stage = AT_TEST -> Set_Setup_Stage(s, AT_SET_CONNECT_MODE)
                    [] s.setup_stage = AT_SET_CONNECT_MODE ->
                           Set_Setup_Stage(s, AT_SET_MAX_CONNECTIONS)
                    [] s.setup_stage = AT_SET_MAX_CONNECTIONS ->
                           Set_Setup_Stage(s, AT_START_SERVER)
                    [] s.setup_stage = AT_START_SERVER ->
                           Set_Setup_Stage(s, AT_SEND_HTML_HEADER)
                    [] s.setup_stage = AT_SEND_HTML_HEADER ->
                           Set_Setup_Stage(s, AT_SEND_HTML)
                    [] s.setup_stage = AT_SEND_HTML ->
                           Set_Setup_Stage(s, AT_SEND_HTML_HEADER)
                    [] OTHER -> s
         IN Change_Response_Status(Clear_RX_Buffer(a), TIMEOUT)

\* Handle_Response that restarts provisioning after the page was sent
Handle_Response_RestartsProvisioning(s) ==
    IF s.response_status # SUCCESS
    THEN Change_Response_Status(Clear_RX_Buffer(s), IDLE)
    ELSE LET a == CASE s.setup_stage = AT_TEST -> Set_Setup_Stage(s, AT_SET_CONNECT_MODE)
                    [] s.setup_stage = AT_SET_CONNECT_MODE ->
                           Set_Setup_Stage(s, AT_SET_MAX_CONNECTIONS)
                    [] s.setup_stage = AT_SET_MAX_CONNECTIONS ->
                           Set_Setup_Stage(s, AT_START_SERVER)
                    [] s.setup_stage = AT_START_SERVER ->
                           Set_Setup_Stage(s, AT_SEND_HTML_HEADER)
                    [] s.setup_stage = AT_SEND_HTML_HEADER ->
                           Set_Setup_Stage(s, AT_SEND_HTML)
                    [] s.setup_stage = AT_SEND_HTML ->
                           Set_Setup_Stage(s, AT_TEST)
                    [] OTHER -> s
         IN Change_Response_Status(Clear_RX_Buffer(a), IDLE)

Handle_Response(s) ==
    IF s.response_status # SUCCESS
    THEN Change_Response_Status(Clear_RX_Buffer(s), IDLE)
    ELSE LET a == CASE s.setup_stage = AT_TEST -> Set_Setup_Stage(s, AT_SET_CONNECT_MODE)
                    [] s.setup_stage = AT_SET_CONNECT_MODE ->
                           Set_Setup_Stage(s, AT_SET_MAX_CONNECTIONS)
                    [] s.setup_stage = AT_SET_MAX_CONNECTIONS ->
                           Set_Setup_Stage(s, AT_START_SERVER)
                    [] s.setup_stage = AT_START_SERVER ->
                           Set_Setup_Stage(s, AT_SEND_HTML_HEADER)
                    [] s.setup_stage = AT_SEND_HTML_HEADER ->
                           Set_Setup_Stage(s, AT_SEND_HTML)
                    [] s.setup_stage = AT_SEND_HTML ->
                           Set_Setup_Stage(s, AT_SEND_HTML_HEADER)
                    [] OTHER -> s
         IN Change_Response_Status(Clear_RX_Buffer(a), IDLE)

\* observation: who set response_status to SUCCESS last, the command
\* transmitted last at that moment and whether its reply was awaited
NoSuccess == [by |-> "", cmd |-> "", waiting |-> FALSE]

Note_Success(s, who) ==
    [s EXCEPT !.obs.success_by = [by |-> who, cmd |-> s.uart_tx.cmd,
                                  waiting |-> s.response_status = WAITING]]

\* the terminator test with a single CR LF
Frame_Detected_SingleCRLF(s) == strstr(s.rx_buffer, <<CR, LF>>) # NULL

\* Check_Reception_Completion, the test of its first line
Frame_Detected(s) == strstr(s.rx_buffer, S_CRLFCRLF) # NULL

\* Check_Reception_Completion, the body run on a detected frame
Classify_Frame(s, stack) ==
    Bind(IF strstr(s.rx_buffer, S_GET_SSID) # NULL
         THEN Handle_Client_Request(s, stack)
         ELSE s,
         LAMBDA a :
    Bind(IF strstr(a.rx_buffer, S_STA_CONNECTED) # NULL
         THEN [a EXCEPT !.is_client_connected = 1]
         ELSE IF strstr(a.rx_buffer, S_STA_DISCONNECTED) # NULL
              THEN [a EXCEPT !.is_client_connected = 0]
              ELSE a,
         LAMBDA b :
    Bind(IF strstr(b.rx_buffer, S_0_CONNECT) # NULL
         THEN [b EXCEPT !.is_client_requesting_page = 1]
         ELSE IF strstr(b.rx_buffer, S_0_CLOSED) # NULL
              THEN [b EXCEPT !.is_client_requesting_page = 0]
              ELSE b,
         LAMBDA c :
    Clear_RX_Buffer(IF strstr(c.rx_buffer, S_OK) # NULL
                    THEN Change_Response_Status(Note_Success(c, "Check_Reception_Completion"),
                                                SUCCESS)
                    ELSE IF strstr(c.rx_buffer, S_ERROR) # NULL
                         THEN Change_Response_Status(c, ERROR)
                         ELSE c))))

\* the callback without the wrap: at the boundary the index is kept
HAL_UART_RxCpltCallback_NoWrap(s) ==
    IF s.rx_index < RX_BUFFER_SIZE - 2
    THEN LET a == [s EXCEPT !.rx_index = s.rx_index + 1]
             b == [a EXCEPT !.rx_buffer[a.rx_index + 1] = NUL]
         IN HAL_UART_Receive_IT(b, b.rx_index)
    ELSE HAL_UART_Receive_IT(s, s.rx_index)

\* the callback that does not re-terminate the buffer
HAL_UART_RxCpltCallback_NoTerminator(s) ==
    IF s.rx_index < RX_BUFFER_SIZE - 2
    THEN LET a == [s EXCEPT !.rx_index = s.rx_index + 1]
         IN HAL_UART_Receive_IT(a, a.rx_index)
    ELSE LET a == [s EXCEPT !.rx_index = 0]
         IN HAL_UART_Receive_IT(a, a.rx_index)

\* the callback that does not arm the next reception after the wrap
HAL_UART_RxCpltCallback_WrapNotArmed(s) ==
    IF s.rx_index < RX_BUFFER_SIZE - 2
    THEN LET a == [s EXCEPT !.rx_index = s.rx_index + 1]
             b == [a EXCEPT !.rx_buffer[a.rx_index + 1] = NUL]
         IN HAL_UART_Receive_IT(b, b.rx_index)
    ELSE LET a == [s EXCEPT !.rx_index = 0]
         IN [a EXCEPT !.rx_buffer[1] = NUL]

\* HAL_UART_RxCpltCallback, after the HAL stored the byte and ended the
\* one-byte reception
HAL_UART_RxCpltCallback(s) ==
    IF s.rx_index < RX_BUFFER_SIZE - 2
    THEN LET a == [s EXCEPT !.rx_index = s.rx_index + 1]
             b == [a EXCEPT !.rx_buffer[a.rx_index + 1] = NUL]
         IN HAL_UART_Receive_IT(b, b.rx_index)
    ELSE LET a == [s EXCEPT !.rx_index = 0]
             b == [a EXCEPT !.rx_buffer[1] = NUL]
         IN HAL_UART_Receive_IT(b, b.rx_index)


\* observation records: the latest Handle_Response call made by main, the
\* latest direct call made by the unit specification
NoHandled == [status |-> IDLE, stage |-> AT_TEST]
NoUnit == [fn |-> "", arg |-> 0]

(* ------------------------------------------------------------------ *)
(* Interrupt handlers and environment                                   *)
(* ------------------------------------------------------------------ *)
\* the modem puts the bytes of frame f on the wire
ModemSend(f) ==
    /\ wire = <<>>
    /\ frames_left > 0
    /\ wire' = f
    /\ frames_left' = frames_left - 1
    /\ UNCHANGED <<response_status, has_response_changed, setup_stage, tick_when_sent,
                   rx_buffer, rx_index, rx_ptr, uart_tx, connection_established,
                   is_client_connected, is_client_requesting_page, obs,
                   buttonVars, sensorVars, sendVars, transmission_mode,
                   uwTick, pc, ret, ticks_left, edges_left, drdy_left>>

\* USART2 interrupt: the HAL stores the received byte at the armed
\* pointer, ends the one-byte reception and calls the callback
USART2_IRQHandler ==
    /\ wire # <<>>
    /\ rx_ptr # NotArmed
    /\ LET stored == [St EXCEPT !.rx_buffer[rx_ptr] = Head(wire), !.rx_ptr = NotArmed]
       IN Commit(HAL_UART_RxCpltCallback(stored))
    /\ wire' = Tail(wire)
    /\ UNCHANGED <<buttonVars, sensorVars, sendVars, transmission_mode,
                   uwTick, pc, ret, budgetVars>>

\* observation: the ticks that passed while the button is held down,
\* counted without wrapping
Elapsed(o, d) == [o EXCEPT !.held = IF button_pressed = 1 THEN @ + d ELSE @]

\* HAL_Delay(d) inside a foreground step, as the observation sees it
HAL_Delay(s, d) == [s EXCEPT !.obs = Elapsed(s.obs, d)]

\* SysTick interrupt(s): the millisecond counter advances by d
SysTick_Handler(d) ==
    /\ ticks_left > 0
    /\ uwTick' = Add32(uwTick, d)
    /\ ticks_left' = ticks_left - 1
    /\ obs' = Elapsed(obs, d)
    /\ UNCHANGED <<response_status, has_response_changed, setup_stage, tick_when_sent,
                   rx_buffer, rx_index, rx_ptr, uart_tx, connection_established,
                   is_client_connected, is_client_requesting_page,
                   buttonVars, sensorVars, sendVars, transmission_mode,
                   wire, pc, ret, frames_left, edges_left, drdy_left>>

Action_Type_LongAbove(duration) == IF Lt32(T32(LONG_PRESS), duration) THEN 1 ELSE 0

\* (press_duration < 500) ? 0 : 1, on unsigned 32-bit ticks
Action_Type(duration) == IF Lt32(duration, T32(LONG_PRESS)) THEN 0 ELSE 1

\* HAL_GPIO_EXTI_Callback(GPIO_PIN_0): an edge on the button pin
EXTI0_IRQHandler ==
    /\ edges_left > 0
    /\ edges_left' = edges_left - 1
    /\ pin' = 1 - pin
    /\ IF pin' = 1
       THEN /\ button_pressed' = 1
            /\ button_press_start' = HAL_GetTick
            /\ obs' = [obs EXCEPT !.held = 0]
            /\ UNCHANGED <<press_duration, button_action_type, button_action_pending>>
       ELSE /\ button_pressed' = 0
            /\ press_duration' = Sub32(HAL_GetTick, button_press_start)
            /\ button_action_type' = Action_Type(press_duration')
            /\ button_action_pending' = 1
            /\ UNCHANGED button_press_start
            /\ obs' = [obs EXCEPT
                   !.n_short = @ + (1 - Action_Type(press_duration')),
                   !.n_long = @ + Action_Type(press_duration'),
                   !.overlap = @ \/ button_action_pending = 1 \/ pc = "button_clear",
                   !.unserved = TRUE]
    /\ UNCHANGED <<response_status, has_response_changed, setup_stage, tick_when_sent,
                   rx_buffer, rx_index, rx_ptr, uart_tx, connection_established,
                   is_client_connected, is_client_requesting_page,
                   sensorVars, sendVars, transmission_mode,
                   uwTick, wire, pc, ret, frames_left, ticks_left, drdy_left>>

\* a data-ready callback that toggles the flag instead of setting it
EXTI_DataReady_Toggles(sensor) ==
    /\ drdy_left > 0
    /\ drdy_left' = drdy_left - 1
    /\ data_ready_mag' = IF sensor = "MAG" THEN 1 - data_ready_mag ELSE data_ready_mag
    /\ data_ready_acc' = IF sensor = "ACC" THEN 1 - data_ready_acc ELSE data_ready_acc
    /\ data_ready_gyr' = IF sensor = "GYR" THEN 1 - data_ready_gyr ELSE data_ready_gyr
    /\ UNCHANGED <<response_status, has_response_changed, setup_stage, tick_when_sent,
                   rx_buffer, rx_index, rx_ptr, uart_tx, connection_established,
                   is_client_connected, is_client_requesting_page, obs,
                   buttonVars, packet_number, cdc_tx, sendVars, transmission_mode,
                   uwTick, wire, pc, ret, frames_left, ticks_left, edges_left>>

\* HAL_GPIO_EXTI_Callback(GPIO_PIN_2 / 4 / 1): a sensor's data-ready edge
EXTI_DataReady(sensor) ==
    /\ drdy_left > 0
    /\ drdy_left' = drdy_left - 1
    /\ data_ready_mag' = IF sensor = "MAG" THEN 1 ELSE data_ready_mag
    /\ data_ready_acc' = IF sensor = "ACC" THEN 1 ELSE data_ready_acc
    /\ data_ready_gyr' = IF sensor = "GYR" THEN 1 ELSE data_ready_gyr
    /\ UNCHANGED <<response_status, has_response_changed, setup_stage, tick_when_sent,
                   rx_buffer, rx_index, rx_ptr, uart_tx, connection_established,
                   is_client_connected, is_client_requesting_page, obs,
                   buttonVars, packet_number, cdc_tx, sendVars, transmission_mode,
                   uwTick, wire, pc, ret, frames_left, ticks_left, edges_left>>

(* ------------------------------------------------------------------ *)
(* main: the statements of while (1), one action each                   *)
(* ------------------------------------------------------------------ *)
fgFrame == <<buttonVars, sensorVars, sendVars, transmission_mode,
             uwTick, wire, ret, budgetVars>>

\* Clear_RX_Buffer statement by statement, for the interleavings with the
\* receive interrupt: HAL_UART_AbortReceive_IT(&huart2);
Clear_Abort ==
    /\ pc = "clr_abort"
    /\ Commit(HAL_UART_AbortReceive_IT(St))
    /\ pc' = "clr_memset"
    /\ UNCHANGED fgFrame

\* memset((void*)rx_buffer, 0, RX_BUFFER_SIZE);
Clear_Memset ==
    /\ pc = "clr_memset"
    /\ Commit([St EXCEPT !.rx_buffer = ZeroBuffer])
    /\ pc' = "clr_index"
    /\ UNCHANGED fgFrame

\* rx_index = 0;
Clear_Index ==
    /\ pc = "clr_index"
    /\ Commit([St EXCEPT !.rx_index = 0])
    /\ pc' = "clr_arm"
    /\ UNCHANGED fgFrame

\* HAL_UART_Receive_IT(&huart2, &rx_buffer[0], 1);
Clear_Arm ==
    /\ pc = "clr_arm"
    /\ Commit(HAL_UART_Receive_IT(St, 0))
    /\ pc' = "clr_done"
    /\ UNCHANGED fgFrame

\* Check_Reception_Completion: the terminator test
Main_Check_Reception ==
    /\ pc = "check_reception"
    /\ pc' = IF Frame_Detected(St) THEN "classify" ELSE "finished"
    /\ Commit(St)
    /\ UNCHANGED fgFrame

\* Check_Reception_Completion: the body, after its debug output
Main_Classify ==
    /\ pc = "classify"
    /\ \E stack \in StackBytes : Commit(Classify_Frame(St, stack))
    /\ pc' = "finished"
    /\ UNCHANGED fgFrame

\* if (Has_Response_Finished() == 1) Handle_Response();
Main_Handle_Response ==
    /\ pc = "finished"
    /\ LET logged == Log_Response_Status_Change(St)
       IN IF Has_Response_Finished(logged) = 1
          THEN Commit([Handle_Response(logged) EXCEPT
                          !.obs.handled = [status |-> response_status,
                                           stage |-> setup_stage]])
          ELSE Commit(logged)
    /\ pc' = "timeout"
    /\ UNCHANGED fgFrame

\* if (Is_Timedout(5000) == 1 && response_status == WAITING) ...
Main_Timeout ==
    /\ pc = "timeout"
    /\ IF Is_Timedout(RESPONSE_TIMEOUT) = 1 /\ response_status = WAITING
       THEN Commit(Change_Response_Status(St, TIMEOUT))
       ELSE Commit(St)
    /\ pc' = "request"
    /\ UNCHANGED fgFrame

\* if (response_status == SEND_REQUEST) Configure_ESP_As_Access_Point();
Main_Send_Request ==
    /\ pc = "request"
    /\ IF response_status = SEND_REQUEST
       THEN Commit(Configure_ESP_As_Access_Point(St))
       ELSE Commit(St)
    /\ pc' = "button"
    /\ UNCHANGED fgFrame

\* main's button handling without the test of button_action_type
Main_Button_IgnoresType ==
    /\ pc = "button"
    /\ IF button_action_pending = 1
       THEN /\ pc' = "button_clear"
            /\ LET s == Change_Response_Status(St, SEND_REQUEST)
               IN /\ response_status' = s.response_status
                  /\ has_response_changed' = s.has_response_changed
            /\ obs' = [obs EXCEPT !.n_req = @ + 1, !.unserved = FALSE]
            /\ UNCHANGED transmission_mode
       ELSE /\ pc' = "connect"
            /\ UNCHANGED <<response_status, has_response_changed, transmission_mode, obs>>
    /\ UNCHANGED <<setup_stage, tick_when_sent, rx_buffer, rx_index, rx_ptr, uart_tx,
                   connection_established, is_client_connected, is_client_requesting_page,
                   buttonVars, sensorVars, sendVars, uwTick, wire, ret, budgetVars>>

\* a mode cycle that leaves out the binary mode on the modem's UART
Next_Mode_SkipsBinaryUart(mode) ==
    IF (mode + 1) % 5 = MODE_BINARY_UART THEN MODE_ASCII_UART ELSE (mode + 1) % 5

\* (transmission_mode + 1) % 5
Next_Mode(mode) == (mode + 1) % 5

\* if (button_action_pending) { act on button_action_type ...
Main_Button ==
    /\ pc = "button"
    /\ IF button_action_pending = 1
       THEN /\ pc' = "button_clear"
            /\ IF button_action_type = 0
               THEN /\ LET s == Change_Response_Status(St, SEND_REQUEST)
                       IN /\ response_status' = s.response_status
                          /\ has_response_changed' = s.has_response_changed
                    /\ obs' = [obs EXCEPT !.n_req = @ + 1, !.unserved = FALSE]
                    /\ UNCHANGED transmission_mode
               ELSE /\ transmission_mode' = Next_Mode(transmission_mode)
                    /\ obs' = [obs EXCEPT !.n_mode = @ + 1, !.unserved = FALSE]
                    /\ UNCHANGED <<response_status, has_response_changed>>
       ELSE /\ pc' = "connect"
            /\ UNCHANGED <<response_status, has_response_changed, transmission_mode, obs>>
    /\ UNCHANGED <<setup_stage, tick_when_sent, rx_buffer, rx_index, rx_ptr, uart_tx,
                   connection_established, is_client_connected, is_client_requesting_page,
                   buttonVars, sensorVars, sendVars, uwTick, wire, ret, budgetVars>>

\* ... button_action_pending = 0; }
Main_Button_Clear ==
    /\ pc = "button_clear"
    /\ button_action_pending' = 0
    /\ pc' = "connect"
    /\ UNCHANGED <<response_status, has_response_changed, setup_stage, tick_when_sent,
                   rx_buffer, rx_index, rx_ptr, uart_tx, connection_established,
                   is_client_connected, is_client_requesting_page, obs,
                   button_press_start, button_pressed, button_action_type,
                   press_duration, pin,
                   sensorVars, sendVars, transmission_mode, uwTick, wire, ret, budgetVars>>


(* ------------------------------------------------------------------ *)
(* Establish_Connection, called by main in MODE_ASCII_UART              *)
(* ------------------------------------------------------------------ *)
\* main's test and the first lines of Establish_Connection:
\* Send_Command("AT+CIPCLOSE=0\r\n"); HAL_Delay(100);
Main_Connect ==
    /\ pc = "connect"
    /\ IF connection_established = 0 /\ transmission_mode = MODE_ASCII_UART
       THEN /\ Commit(HAL_Delay(Send_Command(St, Command("AT+CIPCLOSE=0\r\n")), 100))
            /\ uwTick' = Add32(uwTick, 100)
            /\ pc' = "ec_start"
       ELSE /\ Commit(St)
            /\ UNCHANGED uwTick
            /\ pc' = "sensors"
    /\ UNCHANGED <<buttonVars, sensorVars, sendVars, transmission_mode, wire, ret, budgetVars>>

\* Clear_RX_Buffer(); Send_Command(AT+CIPSTART ...); start_time = HAL_GetTick();
Establish_Start ==
    /\ pc = "ec_start"
    /\ Commit(Send_Command(Clear_RX_Buffer(St),
                           Command("AT+CIPSTART=0,\"TCP\",\"172.20.10.11\",5000\r\n")))
    /\ start_time' = HAL_GetTick
    /\ pc' = "ec_wait"
    /\ UNCHANGED <<buttonVars, sensorVars, sds_last_send_time, tda_last_send_time, retries,
                   transmission_mode, uwTick, wire, ret, budgetVars>>

\* the wait of Establish_Connection without its five second bound
Establish_Poll_NoTimeout(s) ==
    IF strstr(s.rx_buffer, S_CONNECT) # NULL
    THEN [done |-> TRUE,
          st |-> Clear_RX_Buffer(Change_Response_Status(
                     Note_Success(s, "Establish_Connection"), SUCCESS))]
    ELSE IF strstr(s.rx_buffer, S_ERROR) # NULL \/ strstr(s.rx_buffer, S_CLOSED) # NULL
         THEN [done |-> TRUE, st |-> Clear_RX_Buffer(Change_Response_Status(s, ERROR))]
         ELSE [done |-> FALSE, st |-> s]

\* one evaluation of the while condition and of the loop body
Establish_Poll(s) ==
    IF Lt32(Sub32(HAL_GetTick, start_time), T32(5000))
    THEN IF strstr(s.rx_buffer, S_CONNECT) # NULL
         THEN [done |-> TRUE,
               st |-> Clear_RX_Buffer(Change_Response_Status(
                          Note_Success(s, "Establish_Connection"), SUCCESS))]
         ELSE IF strstr(s.rx_buffer, S_ERROR) # NULL \/ strstr(s.rx_buffer, S_CLOSED) # NULL
              THEN [done |-> TRUE, st |-> Clear_RX_Buffer(Change_Response_Status(s, ERROR))]
              ELSE [done |-> FALSE, st |-> s]
    ELSE [done |-> TRUE, st |-> Clear_RX_Buffer(Change_Response_Status(s, TIMEOUT))]

Establish_Wait ==
    /\ pc = "ec_wait"
    /\ LET r == Establish_Poll(St)
       IN /\ Commit(r.st)
          /\ pc' = IF r.done THEN "ec_done" ELSE "ec_wait"
    /\ UNCHANGED fgFrame

\* main falling back to MODE_NONE when the connection attempt failed
Main_Connect_Result_FallsBack ==
    /\ pc = "ec_done"
    /\ IF response_status = SUCCESS
       THEN /\ Commit([St EXCEPT !.connection_established = 1])
            /\ UNCHANGED <<uwTick, transmission_mode>>
       ELSE IF response_status = TIMEOUT \/ response_status = ERROR
            THEN /\ Commit(HAL_Delay(St, 1000))
                 /\ uwTick' = Add32(uwTick, 1000)
                 /\ transmission_mode' = MODE_NONE
            ELSE /\ Commit(St)
                 /\ UNCHANGED <<uwTick, transmission_mode>>
    /\ pc' = "sensors"
    /\ UNCHANGED <<buttonVars, sensorVars, sendVars, wire, ret, budgetVars>>

\* main, after Establish_Connection returned
Main_Connect_Result ==
    /\ pc = "ec_done"
    /\ IF response_status = SUCCESS
       THEN /\ Commit([St EXCEPT !.connection_established = 1])
            /\ UNCHANGED uwTick
       ELSE IF response_status = TIMEOUT \/ response_status = ERROR
            THEN /\ Commit(HAL_Delay(St, 1000))
                 /\ uwTick' = Add32(uwTick, 1000)
            ELSE /\ Commit(St)
                 /\ UNCHANGED uwTick
    /\ pc' = "sensors"
    /\ UNCHANGED <<buttonVars, sensorVars, sendVars, transmission_mode, wire, ret, budgetVars>>

(* ------------------------------------------------------------------ *)
(* Sensor dispatch and packetizer                                       *)
(* ------------------------------------------------------------------ *)
HEADER_MAG == 43691
HEADER_ACC == 48059
HEADER_GYR == 52428

Header(sensor) ==
    CASE sensor = "MAG" -> HEADER_MAG
      [] sensor = "ACC" -> HEADER_ACC
      [] sensor = "GYR" -> HEADER_GYR

\* raw axis triples read from the sensor registers
RawSamples == {<<0, 0, 0>>, <<-1, 256, -32768>>}

Pack_Data_BigEndianAxes(header, x, y, z) ==
    << header % 256, (header \div 256) % 256,
       packet_number % 256, (packet_number \div 256) % 256,
       (x \div 256) % 256, x % 256,
       (y \div 256) % 256, y % 256,
       (z \div 256) % 256, z % 256 >>

\* v & 0xFF is v % 256 and (v >> 8) & 0xFF is (v \div 256) % 256, also
\* for a negative int16_t (arithmetic shift, two's complement)
Pack_Data(header, x, y, z) ==
    << header % 256, (header \div 256) % 256,
       packet_number % 256, (packet_number \div 256) % 256,
       x % 256, (x \div 256) % 256,
       y % 256, (y \div 256) % 256,
       z % 256, (z \div 256) % 256 >>

NextSensor(at) ==
    CASE at = "mag" -> "acc"
      [] at = "acc" -> "gyr"
      [] at = "gyr" -> "check_reception"

SensorAt(at) ==
    CASE at = "mag" -> "MAG"
      [] at = "acc" -> "ACC"
      [] at = "gyr" -> "GYR"

DataReady(at) ==
    CASE at = "mag" -> data_ready_mag
      [] at = "acc" -> data_ready_acc
      [] at = "gyr" -> data_ready_gyr

\* if (connection_established) { ... the three handlers ... }
Main_Sensors ==
    /\ pc = "sensors"
    /\ pc' = IF connection_established = 1 THEN "mag" ELSE "check_reception"
    /\ Commit(St)
    /\ UNCHANGED fgFrame

Sample_Done_Saturates(at) ==
    /\ packet_number' = IF packet_number = U16 - 1 THEN packet_number ELSE packet_number + 1
    /\ pc' = NextSensor(at)

\* the end of a handler: packet_number++ on a uint16_t
Sample_Done(at) ==
    /\ packet_number' = (packet_number + 1) % U16
    /\ pc' = NextSensor(at)

\* CDC_Transmit_FS: the buffer handed to the USB device
CDC_Transmit_FS(data) == cdc_tx' = data

\* snprintf in Transmit_Data_ASCII: the label and the sequence number of
\* the text (the three scaled axis values are left out)
Ascii_Buffer(sensor_label) == <<sensor_label, packet_number>>

\* if (data_ready_x) Handle_X();  up to the call of Send_Data_To_Server
Handle_Sensor(at) ==
    /\ pc = at
    /\ UNCHANGED <<buttonVars, sds_last_send_time, start_time, retries,
                   transmission_mode, uwTick, wire, budgetVars>>
    /\ IF DataReady(at) = 0
       THEN /\ pc' = NextSensor(at)
            /\ Commit(St)
            /\ UNCHANGED <<sensorVars, tda_last_send_time, ret>>
       ELSE /\ data_ready_mag' = IF at = "mag" THEN 0 ELSE data_ready_mag
            /\ data_ready_acc' = IF at = "acc" THEN 0 ELSE data_ready_acc
            /\ data_ready_gyr' = IF at = "gyr" THEN 0 ELSE data_ready_gyr
            /\ \E raw \in RawSamples :
                 IF transmission_mode \in {MODE_BINARY_UART, MODE_BINARY_CDC}
                 THEN /\ IF transmission_mode = MODE_BINARY_UART
                         THEN /\ Commit(HAL_UART_Transmit(St,
                                    [cmd |-> "binary",
                                     args |-> <<Pack_Data(Header(SensorAt(at)),
                                                          raw[1], raw[2], raw[3])>>]))
                              /\ UNCHANGED cdc_tx
                         ELSE /\ CDC_Transmit_FS(
                                    [cmd |-> "binary",
                                     args |-> <<Pack_Data(Header(SensorAt(at)),
                                                          raw[1], raw[2], raw[3])>>])
                              /\ Commit(St)
                      /\ Sample_Done(at)
                      /\ UNCHANGED <<tda_last_send_time, ret>>
                 ELSE IF transmission_mode = MODE_ASCII_CDC
                      THEN /\ CDC_Transmit_FS([cmd |-> "ascii",
                                               args |-> Ascii_Buffer(SensorAt(at))])
                           /\ Commit(St)
                           /\ Sample_Done(at)
                           /\ UNCHANGED <<tda_last_send_time, ret>>
                      ELSE IF /\ transmission_mode = MODE_ASCII_UART
                              /\ connection_established = 1
                              /\ ~Lt32(Sub32(HAL_GetTick, tda_last_send_time),
                                       T32(MIN_SEND_INTERVAL))
                           THEN \* Transmit_Data_ASCII calls Send_Data_To_Server
                                /\ pc' = "sds_entry"
                                /\ ret' = [at |-> at, current_time |-> HAL_GetTick,
                                           data |-> Ascii_Buffer(SensorAt(at))]
                                /\ Commit(St)
                                /\ UNCHANGED <<packet_number, cdc_tx, tda_last_send_time>>
                           ELSE /\ Commit(St)
                                /\ Sample_Done(at)
                                /\ UNCHANGED <<cdc_tx, tda_last_send_time, ret>>

(* ------------------------------------------------------------------ *)
(* Send_Data_To_Server                                                  *)
(* ------------------------------------------------------------------ *)
NoCall == [made |-> FALSE, tick |-> T32(0), tx |-> FALSE, ok |-> FALSE]

\* the return into Transmit_Data_ASCII and the handler:
\* last_send_time = current_time; packet_number++
Send_Return ==
    /\ tda_last_send_time' = ret.current_time
    /\ Sample_Done(ret.at)
    /\ UNCHANGED cdc_tx

\* observation: the tick of a call and whether it went on to transmit
Note_Call(s, transmits) ==
    [s EXCEPT !.obs.sds_prev = s.obs.sds_last,
              !.obs.sds_last = [made |-> TRUE, tick |-> HAL_GetTick, tx |-> transmits,
                               ok |-> FALSE],
              !.obs.n_cipsend = 0, !.obs.n_payload = 0]

\* observation: the CIPSEND commands and the payloads of the current call
Note_Cipsend(s) == [s EXCEPT !.obs.n_cipsend = @ + 1]
Note_Payload(s) == [s EXCEPT !.obs.n_payload = @ + 1]

Send_Entry ==
    /\ pc = "sds_entry"
    /\ IF Lt32(Sub32(HAL_GetTick, sds_last_send_time), T32(MIN_INTERVAL))
       THEN /\ Send_Return
            /\ Commit(Note_Call(St, FALSE))
            /\ UNCHANGED uwTick
       ELSE \* Send_Command("AT+CIPSTATUS\r\n"); HAL_Delay(100);
            /\ Commit(HAL_Delay(Send_Command(Note_Call(St, TRUE),
                                              Command("AT+CIPSTATUS\r\n")), 100))
            /\ uwTick' = Add32(uwTick, 100)
            /\ pc' = "sds_status"
            /\ UNCHANGED <<packet_number, cdc_tx, tda_last_send_time>>
    /\ UNCHANGED <<buttonVars, data_ready_mag, data_ready_acc, data_ready_gyr,
                   sds_last_send_time, start_time, retries,
                   transmission_mode, wire, ret, budgetVars>>

\* the status test that knows STATUS:4 only
Connection_Lost_Status4Only(buf) == strstr(buf, S_STATUS4) # NULL

\* strstr(rx_buffer, "STATUS:4") || strstr(rx_buffer, "STATUS:5")
Connection_Lost(buf) == strstr(buf, S_STATUS4) # NULL \/ strstr(buf, S_STATUS5) # NULL

Send_Status ==
    /\ pc = "sds_status"
    /\ IF Connection_Lost(rx_buffer)
       THEN /\ Commit([Clear_RX_Buffer(St) EXCEPT !.connection_established = 0])
            /\ Send_Return
            /\ UNCHANGED <<uwTick, start_time, retries>>
       ELSE \* Clear_RX_Buffer(); Send_Command(cmd); HAL_Delay(200);
            \* start_time = HAL_GetTick(); retries = 0;
            /\ Commit(HAL_Delay(Send_Command(Clear_RX_Buffer(Note_Cipsend(St)),
                                              Command("AT+CIPSEND=0,%d\r\n")), 200))
            /\ uwTick' = Add32(uwTick, 200)
            /\ start_time' = uwTick'
            /\ retries' = 0
            /\ pc' = "sds_prompt"
            /\ UNCHANGED <<packet_number, cdc_tx, tda_last_send_time>>
    /\ UNCHANGED <<buttonVars, data_ready_mag, data_ready_acc, data_ready_gyr,
                   sds_last_send_time, transmission_mode, wire, ret, budgetVars>>

\* one pass of the prompt wait: the inner while condition, its body, and
\* on expiry the retry or the give-up that follows the loops
Send_Prompt ==
    /\ pc = "sds_prompt"
    /\ IF Lt32(Sub32(HAL_GetTick, start_time), T32(1000))
       THEN IF strstr(rx_buffer, S_PROMPT) # NULL
            THEN \* got_prompt: HAL_Delay(50); Clear_RX_Buffer(); transmit the request
                 /\ Commit(HAL_UART_Transmit(Clear_RX_Buffer(HAL_Delay(Note_Payload(St), 50)),
                                              [cmd |-> "POST /data ...", args |-> ret.data]))
                 /\ uwTick' = Add32(uwTick, 50)
                 /\ start_time' = uwTick'
                 /\ pc' = "sds_send_ok"
                 /\ UNCHANGED <<retries, packet_number, cdc_tx, tda_last_send_time>>
            ELSE /\ Commit(St)
                 /\ UNCHANGED <<uwTick, start_time, retries, pc, packet_number, cdc_tx,
                                tda_last_send_time>>
       ELSE /\ retries' = retries + 1
            /\ IF retries' < MAX_RETRIES
               THEN /\ Commit(HAL_Delay(Send_Command(Clear_RX_Buffer(Note_Cipsend(St)),
                                                      Command("AT+CIPSEND=0,%d\r\n")), 200))
                    /\ uwTick' = Add32(uwTick, 200)
                    /\ start_time' = uwTick'
                    /\ UNCHANGED <<pc, packet_number, cdc_tx, tda_last_send_time>>
               ELSE /\ Commit([Clear_RX_Buffer(St) EXCEPT !.connection_established = 0])
                    /\ Send_Return
                    /\ UNCHANGED <<uwTick, start_time>>
    /\ UNCHANGED <<buttonVars, data_ready_mag, data_ready_acc, data_ready_gyr,
                   sds_last_send_time, transmission_mode, wire, ret, budgetVars>>

\* Send_Wait_OK that forgets last_send_time = HAL_GetTick()
Send_Wait_OK_KeepsLastSendTime ==
    /\ pc = "sds_send_ok"
    /\ IF Lt32(Sub32(HAL_GetTick, start_time), T32(2000))
       THEN IF strstr(rx_buffer, S_SEND_OK) # NULL
            THEN /\ UNCHANGED sds_last_send_time
                 /\ Commit([Clear_RX_Buffer(St) EXCEPT !.obs.sds_last.ok = TRUE])
                 /\ Send_Return
            ELSE /\ Commit(St)
                 /\ UNCHANGED <<sds_last_send_time, pc, packet_number, cdc_tx, tda_last_send_time>>
       ELSE /\ Commit(Clear_RX_Buffer(St))
            /\ Send_Return
            /\ UNCHANGED sds_last_send_time
    /\ UNCHANGED <<buttonVars, data_ready_mag, data_ready_acc, data_ready_gyr,
                   start_time, retries, uwTick, transmission_mode, wire, ret, budgetVars>>

Send_Wait_OK ==
    /\ pc = "sds_send_ok"
    /\ IF Lt32(Sub32(HAL_GetTick, start_time), T32(2000))
       THEN IF strstr(rx_buffer, S_SEND_OK) # NULL
            THEN /\ sds_last_send_time' = HAL_GetTick
                 /\ Commit([Clear_RX_Buffer(St) EXCEPT !.obs.sds_last.ok = TRUE])
                 /\ Send_Return
            ELSE /\ Commit(St)
                 /\ UNCHANGED <<sds_last_send_time, pc, packet_number, cdc_tx, tda_last_send_time>>
       ELSE /\ Commit(Clear_RX_Buffer(St))
            /\ Send_Return
            /\ UNCHANGED sds_last_send_time
    /\ UNCHANGED <<buttonVars, data_ready_mag, data_ready_acc, data_ready_gyr,
                   start_time, retries, uwTick, transmission_mode, wire, ret, budgetVars>>


(* ------------------------------------------------------------------ *)
(* Specifications                                                       *)
(* ------------------------------------------------------------------ *)
\* frames the modem emits
F_OK == <<"O", "K", CR, LF, CR, LF>>
F_AT_OK == <<"A", "T", CR, LF, "O", "K", CR, LF, CR, LF>>
F_ERROR == <<"E", "R", "R", "O", "R", CR, LF, CR, LF>>
F_LONG == [i \in 1 .. (RX_BUFFER_SIZE + 1) |-> "x"]
F_CONNECT == <<"0", ",", "C", "O", "N", "N", "E", "C", "T">>
F_CLOSED == <<"0", ",", "C", "L", "O", "S", "E", "D">>
F_STATUS4 == <<"S", "T", "A", "T", "U", "S", ":", "4">>
F_STATUS5 == <<"S", "T", "A", "T", "U", "S", ":", "5">>
F_PROMPT == <<">">>
F_SEND_OK == <<"S", "E", "N", "D", " ", "O", "K">>

InitObs == [sent_stage |-> AT_TEST, handled |-> NoHandled, unit |-> NoUnit,
            n_short |-> 0, n_long |-> 0, n_req |-> 0, n_mode |-> 0, overlap |-> FALSE, unserved |-> FALSE, success_by |-> NoSuccess,
            held |-> 0, n_cipsend |-> 0, n_payload |-> 0,
            sds_prev |-> NoCall, sds_last |-> NoCall]

\* the globals as main leaves them before while (1), reception armed at
\* rx_buffer[0], except for the fields given as parameters; tick is the
\* value of the millisecond counter
BootAt(status, changed, stage, pending, position, tick) ==
    /\ response_status = status
    /\ has_response_changed = changed
    /\ setup_stage = stage
    /\ tick_when_sent = T32(0)
    /\ rx_buffer = ZeroBuffer
    /\ rx_index = 0
    /\ rx_ptr = 0
    /\ button_press_start = T32(0)
    /\ button_pressed = 0
    /\ button_action_pending = pending
    /\ button_action_type = 0
    /\ press_duration = T32(0)
    /\ pin = 0
    /\ transmission_mode = MODE_NONE
    /\ connection_established = 0
    /\ data_ready_mag = 0
    /\ data_ready_acc = 0
    /\ data_ready_gyr = 0
    /\ packet_number = 0
    /\ cdc_tx = NoCommand
    /\ is_client_connected = 0
    /\ is_client_requesting_page = 0
    /\ sds_last_send_time = T32(0)
    /\ tda_last_send_time = T32(0)
    /\ start_time = T32(0)
    /\ retries = 0
    /\ uwTick = tick
    /\ uart_tx = NoCommand
    /\ wire = <<>>
    /\ pc = position
    /\ ret = [at |-> "mag", current_time |-> T32(0), data |-> <<>>]

\* the same with the millisecond counter at zero
BootWith(status, changed, stage, pending, position) ==
    BootAt(status, changed, stage, pending, position, T32(0))

\* the state when main enters while (1)
InitProgram ==
    /\ BootWith(IDLE, 0, AT_TEST, 0, "check_reception")
    /\ obs = InitObs

Budgets(frames, ticks, edges, drdy) ==
    /\ frames_left = frames
    /\ ticks_left = ticks
    /\ edges_left = edges
    /\ drdy_left = drdy

Init ==
    /\ InitProgram
    /\ Budgets(MaxFrames, MaxTicks, MaxEdges, 0)

\* the statements of while (1) that run in every iteration
LoopCore ==
    \/ Main_Check_Reception
    \/ Main_Handle_Response
    \/ Main_Timeout
    \/ Main_Send_Request
    \/ Main_Button
    \/ Main_Connect
    \/ Main_Sensors

\* the statements of while (1) outside the remote-text path: the core,
\* the body run on a detected frame and the end of the button block
MainLoop ==
    \/ LoopCore
    \/ Main_Classify
    \/ Main_Button_Clear

\* Establish_Connection, the sensor handlers and Send_Data_To_Server
RemotePath ==
    \/ Establish_Start
    \/ Establish_Wait
    \/ Main_Connect_Result
    \/ \E at \in {"mag", "acc", "gyr"} : Handle_Sensor(at)
    \/ Send_Entry
    \/ Send_Status
    \/ Send_Prompt
    \/ Send_Wait_OK

\* Spec: the program from reset, with a modem that may emit any of three
\* frames at any time, a button and a clock that may jump past the
\* response timeout.  Its bounds allow one complete gesture, so the
\* transmission mode stays below MODE_ASCII_UART and the remote path is
\* not entered; SpecRemote covers that path.
Next ==
    \/ MainLoop
    \/ USART2_IRQHandler
    \/ EXTI0_IRQHandler
    \/ \E d \in {200, 5001} : SysTick_Handler(d)
    \/ \E f \in {F_OK, F_ERROR, F_LONG} : ModemSend(f)

Spec == Init /\ [][Next]_vars

\* the modem answers the command it received last
ModemReply(cmd, f) ==
    /\ uart_tx.cmd = cmd
    /\ ModemSend(f)

(* SpecStages: the program at any provisioning stage, at the moment main *)
(* has acted on a short press (send request pending, flag not yet        *)
(* cleared).  The modem may answer OK or ERROR or stay silent, the clock *)
(* may jump to or past the response timeout, the button may be pressed   *)
(* again.                                                                *)
InitPending(stage) ==
    /\ BootWith(SEND_REQUEST, 1, stage, 1, "button_clear")
    /\ obs = [InitObs EXCEPT !.sent_stage = stage, !.n_short = 1, !.n_req = 1]

InitStages ==
    /\ \E stage \in AT_TEST .. AT_SEND_HTML : InitPending(stage)
    /\ Budgets(MaxFrames, MaxTicks, MaxEdges, 0)

NextStages ==
    \/ MainLoop
    \/ USART2_IRQHandler
    \/ EXTI0_IRQHandler
    \/ \E d \in {5000, 5001} : SysTick_Handler(d)
    \/ \E f \in {F_OK, F_ERROR} : ModemSend(f)

SpecStages == InitStages /\ [][NextStages]_vars

(* SpecAT: the AT test scenario.  A send request is pending at AT_TEST,  *)
(* the modem answers the AT command with AT CR LF OK CR LF CR LF, the    *)
(* clock advances by less than the response timeout.                     *)
InitAT ==
    /\ InitPending(AT_TEST)
    /\ Budgets(1, MaxTicks, 0, 0)

NextAT ==
    \/ MainLoop
    \/ USART2_IRQHandler
    \/ SysTick_Handler(200)
    \/ ModemReply("AT\r\n", F_AT_OK)

SpecAT ==
    /\ InitAT
    /\ [][NextAT]_vars
    /\ WF_vars(MainLoop)
    /\ WF_vars(USART2_IRQHandler)
    /\ WF_vars(ModemReply("AT\r\n", F_AT_OK))

(* SpecUnit: direct calls of the two validating setters with every       *)
(* uint8_t argument, from every status / stage the program takes.        *)
InitUnit ==
    /\ \E status \in TIMEOUT .. SEND_REQUEST, changed \in {0, 1},
          stage \in AT_TEST .. AT_SEND_HTML :
          BootWith(status, changed, stage, 0, "unit")
    /\ obs = InitObs
    /\ Budgets(0, 0, 0, 0)

Unit_Change_Response_Status(new_status) ==
    /\ pc = "unit"
    /\ Commit([Change_Response_Status(St, new_status) EXCEPT
                  !.obs.unit = [fn |-> "Change_Response_Status", arg |-> new_status]])
    /\ pc' = "unit_done"
    /\ UNCHANGED fgFrame

Unit_Set_Setup_Stage(new_stage) ==
    /\ pc = "unit"
    /\ Commit([Set_Setup_Stage(St, new_stage) EXCEPT
                  !.obs.unit = [fn |-> "Set_Setup_Stage", arg |-> new_stage]])
    /\ pc' = "unit_done"
    /\ UNCHANGED fgFrame

NextUnit ==
    \/ \E v \in 0 .. (U8 - 1) : Unit_Change_Response_Status(v)
    \/ \E v \in 0 .. (U8 - 1) : Unit_Set_Setup_Stage(v)

SpecUnit == InitUnit /\ [][NextUnit]_vars

(* SpecRemote: the program in MODE_ASCII_UART, at the moment main has    *)
(* consumed the second long press.  The modem answers the command it     *)
(* received last or reports ERROR unasked; the magnetometer raises       *)
(* data-ready interrupts.                                                *)
BootRemote ==
    /\ response_status = IDLE
    /\ has_response_changed = 0
    /\ setup_stage = AT_TEST
    /\ tick_when_sent = T32(0)
    /\ rx_buffer = ZeroBuffer
    /\ rx_index = 0
    /\ rx_ptr = 0
    /\ button_press_start = T32(600)
    /\ button_pressed = 0
    /\ button_action_pending = 0
    /\ button_action_type = 1
    /\ press_duration = T32(600)
    /\ pin = 0
    /\ transmission_mode = MODE_ASCII_UART
    /\ connection_established = 0
    /\ data_ready_mag = 0
    /\ data_ready_acc = 0
    /\ data_ready_gyr = 0
    /\ packet_number = 0
    /\ cdc_tx = NoCommand
    /\ is_client_connected = 0
    /\ is_client_requesting_page = 0
    /\ sds_last_send_time = T32(0)
    /\ tda_last_send_time = T32(0)
    /\ start_time = T32(0)
    /\ retries = 0
    /\ uwTick = T32(1200)
    /\ uart_tx = NoCommand
    /\ wire = <<>>
    /\ pc = "connect"
    /\ ret = [at |-> "mag", current_time |-> T32(0), data |-> <<>>]
    /\ obs = [InitObs EXCEPT !.n_long = 2, !.n_mode = 2]

InitRemote ==
    /\ BootRemote
    /\ Budgets(MaxFrames + 2, MaxTicks, 0, MaxDataReady)

NextRemote ==
    \/ LoopCore
    \/ Main_Classify
    \/ RemotePath
    \/ USART2_IRQHandler
    \/ EXTI_DataReady("MAG")
    \/ SysTick_Handler(1000)
    \/ ModemReply("AT+CIPSTART=0,\"TCP\",\"172.20.10.11\",5000\r\n", F_CONNECT)
    \/ ModemSend(F_ERROR)
    \/ ModemReply("AT+CIPSTATUS\r\n", F_STATUS4)
    \/ ModemReply("AT+CIPSEND=0,%d\r\n", F_PROMPT)
    \/ ModemReply("POST /data ...", F_SEND_OK)

SpecRemote == InitRemote /\ [][NextRemote]_vars

(* SpecButton: the program from reset with the button only: presses of   *)
(* 0, 200, 400 or 600 and more ticks.                                    *)
InitButton ==
    /\ InitProgram
    /\ Budgets(0, MaxTicks, MaxEdges + 6, 0)

NextButton ==
    \/ LoopCore
    \/ Main_Button_Clear
    \/ EXTI0_IRQHandler
    \/ \E d \in {200, 600} : SysTick_Handler(d)

SpecButton == InitButton /\ [][NextButton]_vars

(* SpecPress: the program from reset with the button only, the           *)
(* millisecond counter starting at zero or 250 ticks before it wraps;    *)
(* the button is held for sums of 1, 249 and 250 ticks, so for 499, 500  *)
(* and 501 ticks among others.                                           *)
NearWrap == <<65535, 65286>>

InitPress ==
    /\ \E tick \in {T32(0), NearWrap} :
          BootAt(IDLE, 0, AT_TEST, 0, "check_reception", tick)
    /\ obs = InitObs
    /\ Budgets(0, MaxTicks + 2, MaxEdges, 0)

NextPress ==
    \/ LoopCore
    \/ Main_Button_Clear
    \/ EXTI0_IRQHandler
    \/ \E d \in {1, 249, 250} : SysTick_Handler(d)

SpecPress == InitPress /\ [][NextPress]_vars

(* SpecSensors: the program with the connection established, in any of   *)
(* the five transmission modes, the sequence counter at zero or one      *)
(* below its wrap.  The three sensors raise data-ready interrupts and    *)
(* the modem answers the send commands.                                  *)
BootConnected(position, numbers) ==
    /\ response_status = IDLE
    /\ has_response_changed = 0
    /\ setup_stage = AT_TEST
    /\ tick_when_sent = T32(0)
    /\ rx_buffer = ZeroBuffer
    /\ rx_index = 0
    /\ rx_ptr = 0
    /\ button_press_start = T32(0)
    /\ button_pressed = 0
    /\ button_action_pending = 0
    /\ button_action_type = 0
    /\ press_duration = T32(0)
    /\ pin = 0
    /\ transmission_mode \in {MODE_NONE, MODE_BINARY_UART, MODE_ASCII_UART,
                              MODE_BINARY_CDC, MODE_ASCII_CDC}
    /\ connection_established = 1
    /\ data_ready_mag = 0
    /\ data_ready_acc = 0
    /\ data_ready_gyr = 0
    /\ packet_number \in numbers
    /\ cdc_tx = NoCommand
    /\ is_client_connected = 0
    /\ is_client_requesting_page = 0
    /\ sds_last_send_time = T32(0)
    /\ tda_last_send_time = T32(0)
    /\ start_time = T32(0)
    /\ retries = 0
    /\ uwTick = T32(1200)
    /\ uart_tx = NoCommand
    /\ wire = <<>>
    /\ pc = position
    /\ ret = [at |-> "mag", current_time |-> T32(0), data |-> <<>>]
    /\ obs = InitObs

InitSensors ==
    /\ BootConnected("sensors", {0, U16 - 1})
    /\ Budgets(MaxFrames + 1, MaxTicks, 0, MaxDataReady + 1)

NextSensors ==
    \/ LoopCore
    \/ \E at \in {"mag", "acc", "gyr"} : Handle_Sensor(at)
    \/ Send_Entry
    \/ Send_Status
    \/ Send_Prompt
    \/ Send_Wait_OK
    \/ USART2_IRQHandler
    \/ \E sensor \in {"MAG", "ACC", "GYR"} : EXTI_DataReady(sensor)
    \/ SysTick_Handler(1000)
    \/ ModemReply("AT+CIPSEND=0,%d\r\n", F_PROMPT)
    \/ ModemReply("POST /data ...", F_SEND_OK)

SpecSensors == InitSensors /\ [][NextSensors]_vars

(* SpecPack: direct calls of Pack_Data with headers and signed axis      *)
(* values at the byte and sign boundaries, for sequence counters at      *)
(* the byte boundaries.                                                   *)
PackHeaders == {0, 255, 256, HEADER_MAG, HEADER_ACC, HEADER_GYR, U16 - 1}
PackAxes == {-32768, -256, -1, 0, 1, 255, 32767}

InitPack ==
    /\ BootConnected("unit", {0, 255, 256, U16 - 1})
    /\ Budgets(0, 0, 0, 0)

Unit_Pack_Data(header, x, y, z) ==
    /\ pc = "unit"
    /\ Commit([St EXCEPT !.obs.unit = [fn |-> "Pack_Data", arg |-> <<header, x, y, z>>,
                                       out |-> Pack_Data(header, x, y, z)]])
    /\ pc' = "unit_done"
    /\ UNCHANGED fgFrame

NextPack ==
    \E header \in PackHeaders, x \in PackAxes, y \in PackAxes, z \in PackAxes :
        Unit_Pack_Data(header, x, y, z)

SpecPack == InitPack /\ [][NextPack]_vars

(* SpecRequest: the program from reset, the modem delivering one         *)
(* credential request of a client: the SSID is MyNet or one of the       *)
(* longest length an access point may have, 32 bytes.                    *)
MyNet == <<"M", "y", "N", "e", "t">>
Secr3t == <<"S", "e", "c", "r", "3", "t">>
LongSsid == [i \in 1 .. SSID_SIZE |-> "s"]

RequestSsids == {MyNet, LongSsid}
RequestPasswords == {Secr3t, <<"p">>}

RequestFrame(S, P) ==
    S_GET_SSID \o S \o S_AMP \o S_PASSWORD \o P \o S_SPACE \o S_CRLFCRLF

InitRequest ==
    /\ InitProgram
    /\ Budgets(MaxFrames, 0, 0, 0)

NextRequest ==
    \/ LoopCore
    \/ Main_Classify
    \/ USART2_IRQHandler
    \/ \E S \in RequestSsids, P \in RequestPasswords : ModemSend(RequestFrame(S, P))

SpecRequest == InitRequest /\ [][NextRequest]_vars

(* SpecModes: the program from reset with a button held for 600 ticks    *)
(* at a time, often enough to go round the mode cycle; the modem         *)
(* answers the connection attempt that MODE_ASCII_UART starts, once.     *)
\* the modem reports the connection while Establish_Connection waits
ModemConnects ==
    /\ pc = "ec_wait"
    /\ ModemReply("AT+CIPSTART=0,\"TCP\",\"172.20.10.11\",5000\r\n", F_CONNECT)

InitModes ==
    /\ InitProgram
    /\ Budgets(1, MaxTicks + 4, MaxEdges + 8, 0)

NextModes ==
    \/ LoopCore
    \/ Main_Button_Clear
    \/ Establish_Start
    \/ Establish_Wait
    \/ Main_Connect_Result
    \/ \E at \in {"mag", "acc", "gyr"} : Handle_Sensor(at)
    \/ USART2_IRQHandler
    \/ EXTI0_IRQHandler
    \/ SysTick_Handler(600)
    \/ ModemConnects

SpecModes == InitModes /\ [][NextModes]_vars

(* SpecAll: the program in MODE_ASCII_UART as in SpecRemote, with the    *)
(* button, a modem that answers while the program waits for it and a    *)
(* clock that may jump past the waits: every operation of the program   *)
(* can run.                                                              *)
ModemRefuses ==
    /\ pc = "ec_wait"
    /\ ModemReply("AT+CIPSTART=0,\"TCP\",\"172.20.10.11\",5000\r\n", F_ERROR)

ModemPrompts ==
    /\ pc = "sds_prompt"
    /\ ModemReply("AT+CIPSEND=0,%d\r\n", F_PROMPT)

InitAll ==
    /\ BootRemote
    /\ Budgets(MaxFrames + 1, MaxTicks, MaxEdges, MaxDataReady - 1)

NextAll ==
    \/ MainLoop
    \/ RemotePath
    \/ USART2_IRQHandler
    \/ EXTI0_IRQHandler
    \/ EXTI_DataReady("MAG")
    \/ SysTick_Handler(2000)
    \/ ModemConnects
    \/ ModemRefuses
    \/ ModemPrompts

SpecAll == InitAll /\ [][NextAll]_vars

(* SpecStatus: the program connected in MODE_ASCII_UART; the modem       *)
(* answers the status query with STATUS:4 or STATUS:5, or lets the send  *)
(* go on, and accepts a new connection.                                  *)
ModemReportsStatus ==
    /\ pc = "sds_status"
    /\ \E f \in {F_STATUS4, F_STATUS5} : ModemReply("AT+CIPSTATUS\r\n", f)

InitStatus ==
    /\ BootConnected("sensors", {0})
    /\ transmission_mode = MODE_ASCII_UART
    /\ Budgets(MaxFrames + 1, MaxTicks, 0, MaxDataReady)

NextStatus ==
    \/ LoopCore
    \/ RemotePath
    \/ USART2_IRQHandler
    \/ EXTI_DataReady("MAG")
    \/ SysTick_Handler(2000)
    \/ ModemReportsStatus
    \/ ModemConnects
    \/ ModemPrompts

SpecStatus == InitStatus /\ [][NextStatus]_vars

(* SpecSend: one sample in MODE_ASCII_UART with the connection up: the   *)
(* modem may give the prompt and may confirm the payload, the clock may  *)
(* run past each wait of Send_Data_To_Server.                            *)
ModemConfirms ==
    /\ pc = "sds_send_ok"
    /\ ModemReply("POST /data ...", F_SEND_OK)

InitSend ==
    /\ BootConnected("sensors", {0})
    /\ transmission_mode = MODE_ASCII_UART
    /\ Budgets(MaxFrames + 1, MaxTicks + 2, 0, MaxDataReady - 1)

NextSend ==
    \/ LoopCore
    \/ \E at \in {"mag", "acc", "gyr"} : Handle_Sensor(at)
    \/ Send_Entry
    \/ Send_Status
    \/ Send_Prompt
    \/ Send_Wait_OK
    \/ USART2_IRQHandler
    \/ EXTI_DataReady("MAG")
    \/ SysTick_Handler(1000)
    \/ ModemPrompts
    \/ ModemConfirms

SpecSend == InitSend /\ [][NextSend]_vars

(* SpecCalls: one pass of while (1) from the connection test on, in      *)
(* MODE_ASCII_UART with the connection down or up.  The modem may answer *)
(* each command, answer late or stay silent; the clock advances while    *)
(* the program waits, and the processor keeps executing the foreground.  *)
\* the foreground is inside a wait whose time has not run out yet
Wait_Running ==
    \/ pc = "ec_wait" /\ Lt32(Sub32(HAL_GetTick, start_time), T32(5000))
    \/ pc = "sds_prompt" /\ Lt32(Sub32(HAL_GetTick, start_time), T32(1000))
    \/ pc = "sds_send_ok" /\ Lt32(Sub32(HAL_GetTick, start_time), T32(2000))

\* the millisecond counter advances while the foreground polls it; the
\* ticks between the expiry of a wait and the poll that notices it do
\* not change what that poll reads and are left out
ClockRuns ==
    /\ Wait_Running
    /\ SysTick_Handler(1000)

\* the statements main executes from the connection test to the end of
\* the sensor block
OnePass ==
    \/ Main_Connect
    \/ Main_Sensors
    \/ RemotePath

InitCalls ==
    /\ \/ BootRemote
       \/ BootConnected("connect", {0}) /\ transmission_mode = MODE_ASCII_UART
    /\ Budgets(MaxFrames + 1, MaxTicks + 9, 0, MaxDataReady - 1)

NextCalls ==
    \/ OnePass
    \/ USART2_IRQHandler
    \/ EXTI_DataReady("MAG")
    \/ ClockRuns
    \/ ModemConnects
    \/ ModemRefuses
    \/ ModemReportsStatus
    \/ ModemPrompts
    \/ ModemConfirms

SpecCalls ==
    /\ InitCalls
    /\ [][NextCalls]_vars
    /\ WF_vars(OnePass)
    /\ WF_vars(ClockRuns)

(* SpecClassify: the AT test command pending, then one frame from the    *)
(* modem: a status reply, a station report, a page request followed by   *)
(* OK, or a credential request whose SSID holds the letters OK.          *)
Book == <<"B", "O", "O", "K">>

ClassifyFrames ==
    {F_OK, F_ERROR,
     S_STA_CONNECTED \o S_CRLFCRLF,
     S_STA_DISCONNECTED \o S_CRLFCRLF,
     S_0_CONNECT \o S_CRLFCRLF,
     S_0_CLOSED \o <<CR, LF>> \o F_ERROR,
     S_0_CONNECT \o <<CR, LF>> \o F_OK,
     S_0_CONNECT \o <<CR, LF>> \o RequestFrame(MyNet, <<"p">>),
     RequestFrame(Book, <<"p">>)}

InitClassify ==
    /\ InitPending(AT_TEST)
    /\ Budgets(MaxFrames, 0, 0, 0)

NextClassify ==
    \/ MainLoop
    \/ USART2_IRQHandler
    \/ \E f \in ClassifyFrames : ModemSend(f)

SpecClassify == InitClassify /\ [][NextClassify]_vars

(* SpecClear: one call of Clear_RX_Buffer, statement by statement, made  *)
(* at any point of the reception of a frame: the bytes of the frame      *)
(* arrive before, during and after the call.                             *)
InitClear ==
    /\ BootWith(IDLE, 0, AT_TEST, 0, "clr_abort")
    /\ obs = InitObs
    /\ Budgets(MaxFrames, 0, 0, 0)

NextClear ==
    \/ Clear_Abort
    \/ Clear_Memset
    \/ Clear_Index
    \/ Clear_Arm
    \/ USART2_IRQHandler
    \/ \E f \in ClassifyFrames \cup {F_AT_OK} : ModemSend(f)

SpecClear == InitClear /\ [][NextClear]_vars

(* SpecLocal: the program outside MODE_ASCII_UART with the three sensors *)
(* raising data-ready interrupts and the processor executing the         *)
(* foreground without end: either from reset, where one gesture may      *)
(* select MODE_BINARY_UART and no connection was ever made, or in any of *)
(* the four modes with the connection flag left set by an earlier        *)
(* connection.                                                           *)
Foreground ==
    \/ LoopCore
    \/ Main_Button_Clear
    \/ \E at \in {"mag", "acc", "gyr"} : Handle_Sensor(at)

InitLocal ==
    \/ /\ InitProgram
       /\ Budgets(0, MaxTicks, MaxEdges, MaxDataReady)
    \/ /\ BootConnected("check_reception", {0})
       /\ transmission_mode # MODE_ASCII_UART
       /\ Budgets(0, 0, 0, MaxDataReady)

NextLocal ==
    \/ Foreground
    \/ EXTI0_IRQHandler
    \/ SysTick_Handler(600)
    \/ \E sensor \in {"MAG", "ACC", "GYR"} : EXTI_DataReady(sensor)

SpecLocal ==
    /\ InitLocal
    /\ [][NextLocal]_vars
    /\ WF_vars(Foreground)

(* SpecStream: the program connected in MODE_ASCII_UART while the        *)
(* magnetometer keeps raising data-ready and the modem answers the       *)
(* commands of Send_Data_To_Server.  The millisecond counter advances    *)
(* while the foreground polls it inside a bounded wait and between two   *)
(* iterations of while (1); the other statements of an iteration take no *)
(* time.                                                                 *)
StreamTick == 2000

\* ticks still to come exceed the response timeout
Timeout_Ahead == ticks_left > (RESPONSE_TIMEOUT \div StreamTick)

\* the counter has stopped while the foreground polls it in a wait
Wait_Stalled == Wait_Running /\ ticks_left = 0

StreamClock ==
    /\ pc = "check_reception" \/ Wait_Running
    /\ SysTick_Handler(StreamTick)

InitStream ==
    /\ BootConnected("check_reception", {0})
    /\ transmission_mode = MODE_ASCII_UART
    /\ Budgets(MaxFrames + 2, MaxTicks + 2, 0, MaxDataReady + 1)

NextStream ==
    \/ LoopCore
    \/ RemotePath
    \/ USART2_IRQHandler
    \/ EXTI_DataReady("MAG")
    \/ StreamClock
    \/ ModemConnects
    \/ ModemPrompts
    \/ ModemConfirms

SpecStream ==
    /\ InitStream
    /\ [][NextStream]_vars
    /\ WF_vars(LoopCore \/ RemotePath)
    /\ WF_vars(StreamClock)

(* SpecArmed: the program in MODE_ASCII_UART before the connection, with *)
(* a magnetometer and a clock.  The modem answers the connection request *)
(* and the send command, emits an unsolicited OK while main is between   *)
(* two iterations, and while Send_Data_To_Server waits for the prompt it *)
(* may emit a run of bytes longer than the receive buffer.               *)
ModemFloods ==
    /\ pc = "sds_prompt"
    /\ ModemSend(F_LONG)

ModemIntrudes ==
    /\ pc = "check_reception"
    /\ ModemSend(F_OK)

InitArmed ==
    /\ BootRemote
    /\ Budgets(MaxFrames + 1, MaxTicks, 0, MaxDataReady - 1)

NextArmed ==
    \/ LoopCore
    \/ Main_Classify
    \/ RemotePath
    \/ USART2_IRQHandler
    \/ EXTI_DataReady("MAG")
    \/ SysTick_Handler(2000)
    \/ ModemConnects
    \/ ModemPrompts
    \/ ModemFloods
    \/ ModemIntrudes

SpecArmed == InitArmed /\ [][NextArmed]_vars

TypeOK ==
    /\ response_status \in 0 .. 5
    /\ setup_stage \in 0 .. 6
    /\ rx_index \in BufIdx
    /\ transmission_mode \in 0 .. 4

(* ------------------------------------------------------------------ *)
(* Properties                                                           *)
(* ------------------------------------------------------------------ *)

\* C1: for each of the six provisioning stages, Handle_Response run with
\* response_status = SUCCESS sets setup_stage to the successor of the table
\* AT_TEST -> AT_SET_CONNECT_MODE -> AT_SET_MAX_CONNECTIONS -> AT_START_SERVER
\* -> AT_SEND_HTML_HEADER -> AT_SEND_HTML -> AT_SEND_HTML_HEADER and leaves
\* response_status = IDLE.
C1_SuccessAdvancesStage ==
    [][(pc = "finished" /\ pc' = "timeout" /\ response_status = SUCCESS
           /\ setup_stage \in AT_TEST .. AT_SEND_HTML)
       => /\ response_status' = IDLE
          /\ setup_stage' = (CASE setup_stage = 0 -> 1
                               [] setup_stage = 1 -> 2
                               [] setup_stage = 2 -> 3
                               [] setup_stage = 3 -> 4
                               [] setup_stage = 4 -> 5
                               [] setup_stage = 5 -> 4)]_vars

\* Handle_Response has just run on SUCCESS at AT_START_SERVER
C1_Witness ==
    /\ pc = "timeout"
    /\ obs.handled = [status |-> SUCCESS, stage |-> AT_START_SERVER]
    /\ setup_stage = AT_SEND_HTML_HEADER
    /\ response_status = IDLE

\* C2: for every stage, Handle_Response run with response_status = ERROR or
\* TIMEOUT leaves setup_stage unchanged, clears the receive buffer and resets
\* response_status to IDLE; the next SEND_REQUEST then sends the command of
\* that same stage again.
C2_FailureHoldsStage ==
    [][/\ (pc = "finished" /\ pc' = "timeout" /\ response_status \in {ERROR, TIMEOUT})
          => /\ setup_stage' = setup_stage
             /\ rx_buffer' = ZeroBuffer
             /\ rx_index' = 0
             /\ response_status' = IDLE
       /\ (pc = "request" /\ pc' = "button" /\ response_status = SEND_REQUEST
             /\ obs.handled.status \in {ERROR, TIMEOUT})
          => /\ setup_stage' = obs.handled.stage
             /\ response_status' = WAITING
             /\ uart_tx'.cmd = (CASE obs.handled.stage = 0 -> "AT\r\n"
                                  [] obs.handled.stage = 1 -> "AT+CWMODE=3\r\n"
                                  [] obs.handled.stage = 2 -> "AT+CIPMUX=1\r\n"
                                  [] obs.handled.stage = 3 -> "AT+CIPSERVER=1,80\r\n"
                                  [] obs.handled.stage = 4 -> "AT+CIPSEND=0,334\r\n"
                                  [] obs.handled.stage = 5 -> html_page2.cmd)]_vars

\* an ERROR at AT_SET_MAX_CONNECTIONS was handled and the second request
\* has sent AT+CIPMUX=1 again
C2_Witness ==
    /\ obs.handled = [status |-> ERROR, stage |-> AT_SET_MAX_CONNECTIONS]
    /\ obs.n_req = 2
    /\ pc = "button"
    /\ response_status = WAITING
    /\ setup_stage = AT_SET_MAX_CONNECTIONS
    /\ uart_tx.cmd = "AT+CIPMUX=1\r\n"

\* C3: from a pending send request at AT_TEST, in every interleaving of the
\* receive interrupts with the loop: the request sends AT, the detected
\* frame AT CR LF OK CR LF CR LF is classified SUCCESS, Handle_Response then
\* moves setup_stage from AT_TEST to AT_SET_CONNECT_MODE with status IDLE and
\* the buffer cleared, and this outcome is always reached.
C3_ATScenario ==
    /\ [][/\ (pc = "request" /\ pc' = "button" /\ response_status = SEND_REQUEST)
             => uart_tx'.cmd = "AT\r\n"
          /\ (pc = "classify" /\ pc' = "finished")
             => (response_status' = SUCCESS /\ setup_stage' = AT_TEST)
          /\ (pc = "finished" /\ pc' = "timeout" /\ response_status = SUCCESS)
             => /\ setup_stage = AT_TEST
                /\ setup_stage' = AT_SET_CONNECT_MODE
                /\ response_status' = IDLE
                /\ rx_buffer' = ZeroBuffer
                /\ rx_index' = 0]_vars
    /\ (response_status = SEND_REQUEST)
          ~> (setup_stage = AT_SET_CONNECT_MODE /\ response_status = IDLE)

\* the whole frame was received and handled
C3_Witness ==
    /\ uart_tx.cmd = "AT\r\n"
    /\ frames_left = 0
    /\ wire = <<>>
    /\ obs.handled = [status |-> SUCCESS, stage |-> AT_TEST]
    /\ setup_stage = AT_SET_CONNECT_MODE
    /\ response_status = IDLE
    /\ rx_buffer = ZeroBuffer

\* C4: when main's timeout check runs with response_status = WAITING and more
\* than 5000 ticks elapsed since Send_Command, response_status becomes
\* TIMEOUT; whenever it is TIMEOUT, setup_stage is the stage at which the
\* command was sent.
C4_TimeoutKeepsStage ==
    [][/\ (pc = "timeout" /\ pc' = "request" /\ response_status = WAITING
             /\ Lt32(T32(5000), Sub32(uwTick, tick_when_sent)))
          => (response_status' = TIMEOUT /\ setup_stage' = obs.sent_stage)
       /\ (response_status' = TIMEOUT) => (setup_stage' = obs'.sent_stage)]_vars

\* the start-server command timed out with a silent modem
C4_Witness ==
    /\ response_status = TIMEOUT
    /\ uart_tx.cmd = "AT+CIPSERVER=1,80\r\n"
    /\ setup_stage = AT_START_SERVER
    /\ frames_left = MaxFrames
    /\ uwTick = T32(5001)

\* C5 as stated: once response_status is SUCCESS it keeps that value until
\* a Send_Command sets WAITING.
C5_SuccessUntilSend ==
    [][response_status = SUCCESS => response_status' \in {SUCCESS, WAITING}]_vars

\* C5, amended: once response_status is SUCCESS it is changed only by
\* Handle_Response (to IDLE), by a new Send_Command (to WAITING, with the
\* send timestamped and the buffer cleared) or by the classification of a
\* later frame that holds ERROR (to ERROR); the timeout check and the
\* button handling never change it.
C5_SuccessLeftByHandleSendOrError ==
    [][(response_status = SUCCESS /\ response_status' # SUCCESS)
       => \/ (pc = "finished" /\ response_status' = IDLE)
          \/ (response_status' = WAITING /\ tick_when_sent' = uwTick
                 /\ uart_tx'.cmd = "AT+CIPSTATUS\r\n")
          \/ (pc = "classify" /\ response_status' = ERROR)]_vars

\* the SUCCESS left by Establish_Connection was consumed by Handle_Response
\* with no command sent in between
C5_Witness ==
    /\ connection_established = 1
    /\ obs.handled = [status |-> SUCCESS, stage |-> AT_TEST]
    /\ response_status = IDLE
    /\ uart_tx.cmd = "AT+CIPSTART=0,\"TCP\",\"172.20.10.11\",5000\r\n"

\* C6: rx_index never exceeds RX_BUFFER_SIZE - 2, and a receive-complete
\* callback that runs with rx_index = RX_BUFFER_SIZE - 2 resets rx_index to
\* 0, writes the terminator at index 1 and arms the next reception at
\* rx_buffer[0].
C6_IndexBoundedAndWraps ==
    /\ rx_index <= RX_BUFFER_SIZE - 2
    /\ [][/\ rx_index' <= RX_BUFFER_SIZE - 2
          /\ (wire' # wire /\ Len(wire') < Len(wire) /\ rx_index = RX_BUFFER_SIZE - 2)
             => /\ rx_index' = 0
                /\ rx_buffer'[1] = NUL
                /\ rx_ptr' = 0]_vars

\* the callback has just wrapped: the bytes of the filled buffer are still
\* there behind the new terminator
C6_Witness ==
    /\ rx_index = 0
    /\ rx_ptr = 0
    /\ rx_buffer[0] = "x"
    /\ rx_buffer[1] = NUL
    /\ rx_buffer[RX_BUFFER_SIZE - 2] = "x"

\* C7: in every reachable state rx_buffer holds a zero byte at some index
\* that is at most rx_index + 1 and below RX_BUFFER_SIZE.
C7_BufferTerminated ==
    \E i \in 0 .. (rx_index + 1) : i < RX_BUFFER_SIZE /\ rx_buffer[i] = NUL

\* the buffer is full up to the boundary: the only zero bytes are at
\* rx_index and rx_index + 1
C7_Witness ==
    /\ rx_index = RX_BUFFER_SIZE - 2
    /\ \A i \in 0 .. (RX_BUFFER_SIZE - 3) : rx_buffer[i] = "x"
    /\ rx_buffer[RX_BUFFER_SIZE - 2] = NUL

\* C8: Change_Response_Status called with a value outside 0..5 and
\* Set_Setup_Stage called with a value outside 0..6 leave response_status,
\* has_response_changed and setup_stage unchanged.
C8_InvalidValuesIgnored ==
    [][/\ (obs'.unit.fn = "Change_Response_Status" /\ obs'.unit.arg \notin 0 .. 5)
          => UNCHANGED <<response_status, has_response_changed, setup_stage>>
       /\ (obs'.unit.fn = "Set_Setup_Stage" /\ obs'.unit.arg \notin 0 .. 6)
          => UNCHANGED <<response_status, has_response_changed, setup_stage>>]_vars

\* Set_Setup_Stage(7) has returned from a state with another stage
C8_Witness ==
    /\ pc = "unit_done"
    /\ obs.unit = [fn |-> "Set_Setup_Stage", arg |-> 7]
    /\ setup_stage = AT_SET_MAX_CONNECTIONS
    /\ response_status = WAITING

\* C9 as stated: of any two consecutive calls of Send_Data_To_Server made
\* less than 500 ticks apart, exactly one goes on to transmit.
C9_ExactlyOneTransmits ==
    (obs.sds_prev.made /\ obs.sds_last.made
        /\ Lt32(Sub32(obs.sds_last.tick, obs.sds_prev.tick), T32(500)))
    => (obs.sds_prev.tx # obs.sds_last.tx)

\* C9, amended: of two consecutive calls of Send_Data_To_Server made less
\* than 500 ticks apart, when the first completed with SEND OK the second
\* returns without transmitting anything to the modem.
C9_DroppedAfterSendOK ==
    (obs.sds_prev.made /\ obs.sds_last.made /\ obs.sds_prev.ok
        /\ Lt32(Sub32(obs.sds_last.tick, obs.sds_prev.tick), T32(500)))
    => (obs.sds_prev.tx /\ ~obs.sds_last.tx)

\* a call that saw SEND OK was followed within 500 ticks by a call that
\* returned at the interval check
C9_Witness ==
    /\ obs.sds_prev.made /\ obs.sds_prev.tx /\ obs.sds_prev.ok
    /\ obs.sds_last.made /\ ~obs.sds_last.tx
    /\ Lt32(Sub32(obs.sds_last.tick, obs.sds_prev.tick), T32(500))
    /\ uart_tx.cmd = "POST /data ..."

\* C10: with every gesture consumed by the loop before the next release,
\* each short press (under 500 ticks) causes exactly one transition of
\* response_status to SEND_REQUEST and no change of transmission_mode, and
\* a press held 600 ticks causes one change of transmission_mode and no
\* transition to SEND_REQUEST.
C10_OneActionPerGesture ==
    [][/\ ~obs'.overlap
          => LET unacted == button_action_pending' = 1 /\ pc' # "button_clear"
                 short == Lt32(press_duration', T32(500))
             IN /\ obs'.n_short = obs'.n_req + (IF unacted /\ short THEN 1 ELSE 0)
                /\ obs'.n_long = obs'.n_mode + (IF unacted /\ ~short THEN 1 ELSE 0)
                /\ transmission_mode' = obs'.n_mode % 5
       /\ (obs'.n_req # obs.n_req)
          <=> (response_status # SEND_REQUEST /\ response_status' = SEND_REQUEST)
       /\ (obs'.n_mode # obs.n_mode) <=> (transmission_mode' # transmission_mode)
       /\ (obs'.n_long # obs.n_long) <=> (pin = 1 /\ pin' = 0
                                           /\ ~Lt32(Sub32(uwTick, button_press_start), T32(500)))]_vars

\* three short presses and one press of 600 ticks, each acted on once
C10_Witness ==
    /\ ~obs.overlap
    /\ obs.n_short = 3 /\ obs.n_req = 3
    /\ obs.n_long = 1 /\ obs.n_mode = 1
    /\ press_duration = T32(600)
    /\ transmission_mode = MODE_BINARY_UART
    /\ button_action_pending = 0

\* C11: on a release edge the gesture is classified by the ticks elapsed
\* since the press edge: fewer than 500 is a short press, 500 or more
\* (exactly 500 included) is a long press, also when the 32-bit tick
\* counter wrapped between the press and the release.
C11_ClassifiedByElapsedTicks ==
    [][(pin = 1 /\ pin' = 0)
          => /\ button_action_pending' = 1
             /\ button_action_type' = (IF obs.held < LONG_PRESS THEN 0 ELSE 1)]_vars

\* a press of exactly 500 ticks across the wrap was classified long
C11_Witness ==
    /\ pin = 0
    /\ button_action_pending = 1
    /\ button_action_type = 1
    /\ obs.held = LONG_PRESS
    /\ Lt32(uwTick, button_press_start)

\* C12: every handled sample, of any of the three sensors and in every
\* transmission mode, increments the one packet_number by exactly one,
\* wrapping from 65535 to 0; nothing else changes it; the sequence number
\* in a packet sent for a sample is the value before that increment.
C12_OneIncrementPerSample ==
    [][LET handler == pc \in {"mag", "acc", "gyr"} /\ DataReady(pc) = 1 /\ pc' # pc
           inSend == pc \in {"sds_entry", "sds_status", "sds_prompt", "sds_send_ok"}
           inSend2 == pc' \in {"sds_entry", "sds_status", "sds_prompt", "sds_send_ok"}
           done == (handler /\ ~inSend2) \/ (inSend /\ ~inSend2)
           next == IF packet_number = 65535 THEN 0 ELSE packet_number + 1
           seq(p) == p[3] + 256 * p[4]
       IN  /\ packet_number' = (IF done THEN next ELSE packet_number)
           /\ (handler /\ transmission_mode = MODE_BINARY_UART)
                 => uart_tx'.cmd = "binary" /\ seq(uart_tx'.args[1]) = packet_number
           /\ (handler /\ transmission_mode = MODE_BINARY_CDC)
                 => cdc_tx'.cmd = "binary" /\ seq(cdc_tx'.args[1]) = packet_number
           /\ (handler /\ transmission_mode = MODE_ASCII_CDC)
                 => cdc_tx'.cmd = "ascii" /\ cdc_tx'.args[2] = packet_number
           /\ (pc = "sds_prompt" /\ uart_tx'.cmd = "POST /data ...")
                 => /\ uart_tx'.args[2] = packet_number
                    /\ packet_number' = packet_number
           /\ (handler /\ ~done) => ret'.data[2] = packet_number]_vars

\* the counter wrapped to 0 after a text sample numbered 65535 was sent
\* to the server
C12_Witness ==
    /\ packet_number = 0
    /\ uart_tx.cmd = "POST /data ..."
    /\ uart_tx.args[2] = 65535
    /\ pc \notin {"sds_entry", "sds_status", "sds_prompt", "sds_send_ok"}

\* C13: for every 16-bit header, every packet_number and every triple of
\* signed 16-bit axis values, negative ones included, reading the ten
\* bytes written by Pack_Data as five little-endian 16-bit fields gives
\* back the header, the packet_number and the three axis values.
C13_PackRoundTrip ==
    obs.unit.fn = "Pack_Data"
       => LET p == obs.unit.out
              u16(i) == p[i] + 256 * p[i + 1]
              s16(i) == IF u16(i) >= 32768 THEN u16(i) - 65536 ELSE u16(i)
          IN  /\ Len(p) = 10
              /\ \A i \in 1 .. 10 : p[i] \in 0 .. 255
              /\ <<u16(1), s16(5), s16(7), s16(9)>> = obs.unit.arg
              /\ u16(3) = packet_number

\* the magnetometer header with -1, -32768 and 32767 under sequence
\* number 65535
C13_Witness ==
    /\ obs.unit.fn = "Pack_Data"
    /\ obs.unit.arg = <<HEADER_MAG, -1, -32768, 32767>>
    /\ packet_number = 65535
    /\ obs.unit.out = <<171, 170, 255, 255, 255, 255, 0, 128, 255, 127>>

\* C14: when the detected frame holds GET /?ssid=<S>&password=<P> followed
\* by a space, the classification step issues AT+CWJAP with exactly the
\* two values S and P.
C14_ExtractsCredentials ==
    [][\A S \in RequestSsids, P \in RequestPasswords :
          (pc = "classify" /\ CStr(rx_buffer) = RequestFrame(S, P))
             => uart_tx' = [cmd |-> "AT+CWJAP=\"%s\",\"%s\"\r\n", args |-> <<S, P>>]]_vars

\* the same for the requests whose SSID is shorter than the 32-byte field
C14_ShortSsidExtracted ==
    [][\A S \in RequestSsids, P \in RequestPasswords :
          (pc = "classify" /\ CStr(rx_buffer) = RequestFrame(S, P) /\ Len(S) < SSID_SIZE)
             => uart_tx' = [cmd |-> "AT+CWJAP=\"%s\",\"%s\"\r\n", args |-> <<S, P>>]]_vars

\* the join command for MyNet and Secr3t has been issued
C14_Witness ==
    /\ uart_tx = [cmd |-> "AT+CWJAP=\"%s\",\"%s\"\r\n", args |-> <<MyNet, Secr3t>>]
    /\ response_status = WAITING
    /\ rx_buffer = ZeroBuffer

\* C15: the step of main that calls Send_Command leaves the receive buffer
\* zero-filled with rx_index = 0, tick_when_sent at the current tick,
\* response_status = WAITING, the command of the stage handed to the UART
\* and the reception of one byte armed at rx_buffer[0], whatever the
\* buffer, the index, the armed pointer and the status were before.
C15_SendArmsSession ==
    [][(/\ pc = "request" /\ pc' # pc
        /\ response_status = SEND_REQUEST
        /\ setup_stage \in AT_TEST .. AT_SEND_HTML)
          => /\ rx_buffer' = ZeroBuffer
             /\ rx_index' = 0
             /\ rx_ptr' = 0
             /\ tick_when_sent' = uwTick
             /\ response_status' = WAITING
             /\ uart_tx' =
                  (CASE setup_stage = AT_TEST -> Command("AT\r\n")
                     [] setup_stage = AT_SET_CONNECT_MODE -> Command("AT+CWMODE=3\r\n")
                     [] setup_stage = AT_SET_MAX_CONNECTIONS -> Command("AT+CIPMUX=1\r\n")
                     [] setup_stage = AT_START_SERVER -> Command("AT+CIPSERVER=1,80\r\n")
                     [] setup_stage = AT_SEND_HTML_HEADER -> Command("AT+CIPSEND=0,334\r\n")
                     [] setup_stage = AT_SEND_HTML -> html_page2)]_vars

\* a second request was sent while the frame answering the first one lay
\* unhandled in the buffer: the frame is gone and the session is armed
C15_Witness ==
    /\ pc = "button"
    /\ obs.n_req = 2
    /\ obs.handled = NoHandled
    /\ frames_left = 0 /\ wire = <<>>
    /\ rx_buffer = ZeroBuffer /\ rx_index = 0 /\ rx_ptr = 0
    /\ response_status = WAITING
    /\ tick_when_sent = uwTick
    /\ uwTick = T32(5000)

\* C16 as stated: the mode cycle never reaches the binary mode on the
\* modem's UART; it only reaches None, local binary, local text and
\* remote text.
C16_RemoteBinaryUnreachable ==
    transmission_mode \in {MODE_NONE, MODE_BINARY_CDC, MODE_ASCII_CDC, MODE_ASCII_UART}

\* C16, amended: from reset the long presses consumed so far fix the mode:
\* it is their number modulo 5, so the cycle goes through all five modes
\* in the order None, binary UART, text UART, binary CDC, text CDC.
C16_CycleVisitsAllFive ==
    transmission_mode = obs.n_mode % 5

\* the fifth long press brought the mode back to None, after the
\* connection that the text UART mode asked for was made
C16_Witness ==
    /\ obs.n_mode = 5
    /\ transmission_mode = MODE_NONE
    /\ connection_established = 1

\* C17: the step of main that consumes a long press sets transmission_mode
\* to (transmission_mode + 1) mod 5 and leaves response_status and
\* setup_stage as they are; every other step of the foreground and of the
\* interrupt handlers leaves transmission_mode unchanged.
C17_ModeWrittenByLongPressOnly ==
    [][IF pc = "button" /\ pc' = "button_clear" /\ button_action_type = 1
       THEN /\ transmission_mode' = (transmission_mode + 1) % 5
            /\ response_status' = response_status
            /\ setup_stage' = setup_stage
       ELSE transmission_mode' = transmission_mode]_vars

\* a long press was consumed while a command was waiting for its answer
\* and moved the mode on from the text UART mode
C17_Witness ==
    /\ pc = "button_clear"
    /\ button_action_type = 1
    /\ obs.n_mode = 3
    /\ transmission_mode = MODE_BINARY_CDC
    /\ response_status = WAITING
    /\ setup_stage = AT_TEST

\* C18: when the answer to the status query holds STATUS:4 or STATUS:5,
\* Send_Data_To_Server clears connection_established and returns without
\* sending CIPSEND or the payload; Send_Data_To_Server is entered only
\* with connection_established set, and the flag is set again only by
\* main after Establish_Connection ended with SUCCESS.
C18_LostConnectionAbortsSend ==
    [][/\ (/\ pc = "sds_status" /\ pc' # pc
           /\ (strstr(rx_buffer, S_STATUS4) # NULL \/ strstr(rx_buffer, S_STATUS5) # NULL))
             => /\ connection_established' = 0
                /\ uart_tx' = uart_tx
                /\ pc' = NextSensor(ret.at)
       /\ (pc' = "sds_entry" /\ pc # "sds_entry") => connection_established = 1
       /\ (connection_established = 0 /\ connection_established' = 1)
             => pc = "ec_done" /\ response_status = SUCCESS]_vars

\* after a send aborted on STATUS:4 or STATUS:5 and a new connection, the next call
\* queries the status again
C18_Witness ==
    /\ pc = "sds_status"
    /\ connection_established = 1
    /\ obs.sds_prev = [made |-> TRUE, tick |-> T32(1200), tx |-> TRUE, ok |-> FALSE]
    /\ obs.sds_last.made
    /\ uart_tx.cmd = "AT+CIPSTATUS\r\n"
    /\ frames_left = 0 /\ wire = <<>>
    /\ ticks_left = MaxTicks

\* C19: within one call of Send_Data_To_Server, AT+CIPSEND is sent at most
\* three times and the payload at most once, the payload only in a step
\* that found '>' in the buffer; when the third wait ends without the
\* prompt the call returns without a payload and with
\* connection_established cleared; the wait for SEND OK transmits nothing.
C19_BoundedSendAttempts ==
    /\ [](obs.n_cipsend <= 3 /\ obs.n_payload <= 1)
    /\ [][/\ (obs'.n_payload = obs.n_payload + 1)
                => /\ pc = "sds_prompt"
                   /\ uart_tx'.cmd = "POST /data ..."
                   /\ strstr(rx_buffer, S_PROMPT) # NULL
                   /\ obs.n_payload = 0
          /\ (pc = "sds_prompt" /\ pc' \notin {"sds_prompt", "sds_send_ok"})
                => /\ obs.n_cipsend = 3
                   /\ obs'.n_payload = 0
                   /\ connection_established' = 0
                   /\ uart_tx' = uart_tx
          /\ pc = "sds_send_ok" => uart_tx' = uart_tx /\ obs'.n_payload = 1]_vars

\* the call gave up after the third CIPSEND went unanswered
C19_Witness ==
    /\ pc = "acc"
    /\ obs.n_cipsend = 3
    /\ obs.n_payload = 0
    /\ connection_established = 0
    /\ uart_tx.cmd = "AT+CIPSEND=0,%d\r\n"
    /\ ticks_left = 0


(* C20: provided the tick counter keeps advancing, every call of         *)
(* Establish_Connection and of Send_Data_To_Server returns, whatever the *)
(* modem sends or fails to send; Establish_Connection leaves its wait    *)
(* only by returning with response_status SUCCESS, ERROR or TIMEOUT and  *)
(* the receive buffer cleared.                                           *)
C20_CallsTerminate ==
    /\ [][(pc = "ec_wait" /\ pc' # "ec_wait")
            => /\ pc' = "ec_done"
               /\ response_status' \in {SUCCESS, ERROR, TIMEOUT}
               /\ rx_buffer' = ZeroBuffer
               /\ rx_index' = 0]_vars
    /\ (pc \in {"ec_start", "ec_wait"}) ~> (pc = "ec_done")
    /\ (pc \in {"sds_entry", "sds_status", "sds_prompt", "sds_send_ok"})
           ~> (pc \in {"acc", "gyr", "check_reception"})

\* Establish_Connection has returned TIMEOUT from a silent modem, five
\* seconds after it sent the command
C20_Witness ==
    /\ pc = "ec_done"
    /\ response_status = TIMEOUT
    /\ rx_buffer = ZeroBuffer
    /\ wire = <<>>
    /\ Sub32(uwTick, start_time) = T32(5000)
    /\ uart_tx.cmd = "AT+CIPSTART=0,\"TCP\",\"172.20.10.11\",5000\r\n"


(* C21 as stated: while response_status is WAITING, the loop iteration   *)
(* whose timeout test finds 5000 or more ticks elapsed since the command *)
(* was sent sets response_status to TIMEOUT.                             *)
C21_TimesOutAtOrAbove5000 ==
    [][(/\ pc = "timeout" /\ pc' = "request"
        /\ response_status = WAITING
        /\ ~Lt32(Sub32(uwTick, tick_when_sent), T32(5000)))
          => response_status' = TIMEOUT]_vars

\* what the code does: the timeout test passes only above 5000 ticks
C21_TimesOutAbove5000Only ==
    [][(pc = "timeout" /\ pc' = "request" /\ response_status = WAITING)
          => (response_status' = TIMEOUT
                <=> Lt32(T32(5000), Sub32(uwTick, tick_when_sent)))]_vars


\* the markers of Check_Reception_Completion evaluated on a frame
Station_Marker(buf, old) ==
    IF strstr(buf, S_STA_CONNECTED) # NULL THEN 1
    ELSE IF strstr(buf, S_STA_DISCONNECTED) # NULL THEN 0 ELSE old

Client_Marker(buf, old) ==
    IF strstr(buf, S_0_CONNECT) # NULL THEN 1
    ELSE IF strstr(buf, S_0_CLOSED) # NULL THEN 0 ELSE old

Status_Anchor(buf, old) ==
    IF strstr(buf, S_OK) # NULL THEN SUCCESS
    ELSE IF strstr(buf, S_ERROR) # NULL THEN ERROR ELSE old

(* C22 as stated: the step that classifies a detected frame evaluates    *)
(* the payload markers on the frame, then makes one status               *)
(* classification (SUCCESS if the frame contains OK, otherwise ERROR if  *)
(* it contains ERROR, otherwise no change), and leaves the buffer        *)
(* cleared.                                                              *)
C22_OneClassificationPerFrame ==
    [][(pc = "classify" /\ pc' = "finished")
          => /\ response_status' = Status_Anchor(rx_buffer, response_status)
             /\ is_client_connected' = Station_Marker(rx_buffer, is_client_connected)
             /\ is_client_requesting_page'
                    = Client_Marker(rx_buffer, is_client_requesting_page)
             /\ rx_buffer' = ZeroBuffer /\ rx_index' = 0 /\ rx_ptr' = 0]_vars

\* what the code does: the statement holds for the frames without a
\* credential request; with one, the join command is sent first and the
\* markers and anchors then read the cleared buffer
C22_ClassifiedUnlessCredentialRequest ==
    [][(pc = "classify" /\ pc' = "finished")
          => /\ rx_buffer' = ZeroBuffer /\ rx_index' = 0 /\ rx_ptr' = 0
             /\ IF strstr(rx_buffer, S_GET_SSID) = NULL
                THEN /\ response_status' = Status_Anchor(rx_buffer, response_status)
                     /\ is_client_connected'
                            = Station_Marker(rx_buffer, is_client_connected)
                     /\ is_client_requesting_page'
                            = Client_Marker(rx_buffer, is_client_requesting_page)
                ELSE /\ response_status' = WAITING
                     /\ uart_tx'.cmd = "AT+CWJAP=\"%s\",\"%s\"\r\n"
                     /\ UNCHANGED <<is_client_connected, is_client_requesting_page>>]_vars


(* C23: between the abort of the reception and the re-arm inside         *)
(* Clear_RX_Buffer no receive-complete callback runs: every step taken   *)
(* while the foreground is between the two leaves rx_buffer, rx_index    *)
(* and the armed pointer to the foreground, and the call ends with the   *)
(* buffer zero-filled, the index 0 and reception armed at rx_buffer[0].  *)
C23_ClearNeverInterleaved ==
    [][/\ (pc \in {"clr_memset", "clr_index", "clr_arm"} /\ pc' = pc)
            => UNCHANGED <<rx_buffer, rx_index, rx_ptr>>
       /\ (pc = "clr_arm" /\ pc' = "clr_done")
            => (rx_buffer' = ZeroBuffer /\ rx_index' = 0 /\ rx_ptr' = 0)]_vars

\* the buffer held received bytes when the call began, and bytes of the
\* frame are still waiting while the foreground is about to re-arm
C23_Witness ==
    /\ pc = "clr_arm"
    /\ rx_buffer = ZeroBuffer
    /\ rx_index = 0
    /\ rx_ptr = NotArmed
    /\ wire # <<>>
    /\ Len(wire) < Len(F_OK)


(* C24 as stated: when the receive callback wraps rx_index to 0, the     *)
(* terminated frame the foreground can read right after the wrap holds   *)
(* no byte received before the wrap.                                     *)
C24_WrapDiscardsAll ==
    [][(rx_index = RX_BUFFER_SIZE - 2 /\ rx_index' = 0 /\ pc' = pc)
          => CStr(rx_buffer') = <<>>]_vars

\* what the code does: the wrap terminates the buffer behind its first
\* byte, so the frame read right after the wrap is the oldest byte of the
\* discarded content
C24_WrapKeepsFirstByte ==
    [][(rx_index = RX_BUFFER_SIZE - 2 /\ rx_index' = 0 /\ pc' = pc)
          => /\ rx_buffer'[0] = rx_buffer[0]
             /\ CStr(rx_buffer') = IF rx_buffer[0] = NUL THEN <<>> ELSE <<rx_buffer[0]>>]_vars


(* C25: setup_stage changes only in a step taken with response_status   *)
(* SUCCESS, never with ERROR or TIMEOUT; below AT_SEND_HTML_HEADER the   *)
(* change is to the next stage, and from AT_SEND_HTML_HEADER on the      *)
(* stage stays within AT_SEND_HTML_HEADER and AT_SEND_HTML, the step     *)
(* AT_SEND_HTML -> AT_SEND_HTML_HEADER being the only one backwards.     *)
C25_StageMovesForwardThenAlternates ==
    [][/\ (setup_stage' # setup_stage)
            => /\ response_status = SUCCESS
               /\ IF setup_stage = AT_SEND_HTML
                  THEN setup_stage' = AT_SEND_HTML_HEADER
                  ELSE setup_stage' = setup_stage + 1
       /\ (pc = "finished" /\ pc' = "timeout" /\ response_status = SUCCESS)
            => setup_stage' # setup_stage
       /\ (setup_stage >= AT_SEND_HTML_HEADER)
            => setup_stage' \in {AT_SEND_HTML_HEADER, AT_SEND_HTML}]_vars

\* the reply to the page has been handled: the stage fell back to the
\* header and the foreground went on
C25_Witness ==
    /\ setup_stage = AT_SEND_HTML_HEADER
    /\ obs.handled = [status |-> SUCCESS, stage |-> AT_SEND_HTML]
    /\ obs.sent_stage = AT_SEND_HTML
    /\ uart_tx = html_page2
    /\ pc = "request"


(* C26 as stated: in every interleaving of the button interrupt with the *)
(* foreground, a pending gesture is acted on once, by the classification *)
(* of the gesture completed last, and then cleared; a completed gesture  *)
(* that has not been acted on is still pending, so the gesture completed *)
(* last is never dropped.                                                *)
C26_LastGestureNeverDropped ==
    /\ [](obs.unserved => button_action_pending = 1)
    /\ [][/\ (pc = "button" /\ pc' # pc /\ button_action_pending = 1)
               => /\ pc' = "button_clear"
                  /\ obs'.n_req + obs'.n_mode = obs.n_req + obs.n_mode + 1
                  /\ (obs'.n_req # obs.n_req) <=> (button_action_type = 0)
          /\ (pc = "button_clear" /\ pc' # pc) => button_action_pending' = 0
          /\ (pc = "button" /\ pc' # pc /\ button_action_pending = 0)
               => UNCHANGED <<obs, response_status, transmission_mode>>]_vars

\* what the code does: the same without the first conjunct, and a gesture
\* is dropped only when it completes between the foreground's action on
\* the previous one and the statement button_action_pending = 0
C26_DroppedOnlyBeforeClear ==
    /\ [](obs.unserved /\ button_action_pending = 0 => obs.overlap)
    /\ [][/\ (obs.unserved /\ button_action_pending = 1 /\ button_action_pending' = 0)
               => pc = "button_clear"
          /\ (pc = "button" /\ pc' # pc /\ button_action_pending = 1)
               => /\ pc' = "button_clear"
                  /\ obs'.n_req + obs'.n_mode = obs.n_req + obs.n_mode + 1
                  /\ (obs'.n_req # obs.n_req) <=> (button_action_type = 0)
          /\ (pc = "button_clear" /\ pc' # pc) => button_action_pending' = 0]_vars


(* C27: a data-ready interrupt sets its sensor's flag and nothing else,  *)
(* so further interrupts before the handler runs change nothing; the     *)
(* flag is cleared only by the first step of that sensor's handler,      *)
(* which runs once (one increment of packet_number when it ends) and     *)
(* only for a set flag; an interrupt that fires after the clear, the     *)
(* handler still sending, sets the flag again and it stays set until the *)
(* handler's next run.                                                   *)
C27_DataReadyCoalesced ==
    [][LET flags == <<data_ready_mag, data_ready_acc, data_ready_gyr>>
           flags2 == <<data_ready_mag', data_ready_acc', data_ready_gyr'>>
           slot(at) == CASE at = "mag" -> 1 [] at = "acc" -> 2 [] at = "gyr" -> 3
           inSend(p) == p \in {"sds_entry", "sds_status", "sds_prompt", "sds_send_ok"}
       IN  /\ (drdy_left' # drdy_left)
                => /\ \E i \in 1 .. 3 :
                        /\ flags2[i] = 1
                        /\ \A j \in (1 .. 3) \ {i} : flags2[j] = flags[j]
                   /\ UNCHANGED <<packet_number, uart_tx, cdc_tx, pc>>
           /\ \A i \in 1 .. 3 :
                (flags[i] = 1 /\ flags2[i] = 0)
                   => pc \in {"mag", "acc", "gyr"} /\ slot(pc) = i /\ pc' # pc
           /\ (pc \in {"mag", "acc", "gyr"} /\ pc' # pc)
                => /\ flags2[slot(pc)] = 0
                   /\ \A j \in (1 .. 3) \ {slot(pc)} : flags2[j] = flags[j]
                   /\ (flags[slot(pc)] = 0)
                        => UNCHANGED <<packet_number, uart_tx, cdc_tx>> /\ ~inSend(pc')
           /\ (packet_number' # packet_number)
                => \/ pc \in {"mag", "acc", "gyr"} /\ flags[slot(pc)] = 1
                   \/ inSend(pc) /\ ~inSend(pc')]_vars

\* three magnetometer interrupts and no other: the handler ran for the
\* earlier ones, cleared the flag and is still sending its sample, and a
\* later one has set the flag again
C27_Witness ==
    /\ drdy_left = 0
    /\ packet_number = 0
    /\ data_ready_mag = 1 /\ data_ready_acc = 0 /\ data_ready_gyr = 0
    /\ transmission_mode = MODE_ASCII_UART
    /\ ret.at = "mag"
    /\ pc = "sds_prompt"


(* C28 as stated: setup_stage changes only when the SUCCESS being        *)
(* handled was classified from the modem's reply to the command that     *)
(* Configure_ESP_As_Access_Point sent for the current stage, that reply  *)
(* being awaited; a SUCCESS set by Establish_Connection, by a reply to   *)
(* another command or by an unsolicited frame does not change the stage. *)
C28_StageAdvancesOnProvisioningReplyOnly ==
    [][(setup_stage' # setup_stage)
          => /\ obs.success_by.by = "Check_Reception_Completion"
             /\ obs.success_by.waiting
             /\ obs.success_by.cmd
                   = Configure_ESP_As_Access_Point(St).uart_tx.cmd]_vars

\* what the code does: the stage changes for every SUCCESS that main
\* finds, whoever set it
C28_StageAdvancesOnAnySuccess ==
    [][/\ (setup_stage' # setup_stage)
            => response_status = SUCCESS /\ pc = "finished"
       /\ (pc = "finished" /\ pc' # pc /\ response_status = SUCCESS)
            => setup_stage' # setup_stage]_vars


(* C29 as stated: whenever the data-ready flag of a sensor is set, the   *)
(* foreground eventually runs that sensor's handler, which clears the    *)
(* flag, in every transmission mode and whether or not a connection was  *)
(* ever established.                                                     *)
C29_SetFlagEventuallyHandled ==
    /\ (data_ready_mag = 1) ~> (data_ready_mag = 0)
    /\ (data_ready_acc = 1) ~> (data_ready_acc = 0)
    /\ (data_ready_gyr = 1) ~> (data_ready_gyr = 0)

\* what the code does: the handlers run only behind connection_established,
\* so a set flag is handled when the flag of the connection is set and
\* stays set for ever when it is not
C29_HandledOnlyWhenConnected ==
    /\ (data_ready_mag = 1 /\ connection_established = 1) ~> (data_ready_mag = 0)
    /\ (data_ready_acc = 1 /\ connection_established = 1) ~> (data_ready_acc = 0)
    /\ (data_ready_gyr = 1 /\ connection_established = 1) ~> (data_ready_gyr = 0)
    /\ [][connection_established = 0
            => /\ data_ready_mag = 1 => data_ready_mag' = 1
               /\ data_ready_acc = 1 => data_ready_acc' = 1
               /\ data_ready_gyr = 1 => data_ready_gyr' = 1
               /\ packet_number' = packet_number]_vars


\* C30: once main has acted on a short press, response_status leaves
\* SEND_REQUEST only in the step of the loop that calls
\* Configure_ESP_As_Access_Point, which transmits the command of the current
\* setup_stage: no detected frame and no connection attempt takes the
\* request away first.
C30_RequestAlwaysTransmitted ==
    [][(response_status = SEND_REQUEST /\ response_status' # SEND_REQUEST)
          => /\ pc = "request"
             /\ uart_tx' = Configure_ESP_As_Access_Point(St).uart_tx
             /\ obs'.sent_stage = setup_stage]_vars

\* what the loop guarantees instead: response_status leaves SEND_REQUEST
\* in the step that transmits the stage's command, or before it in the
\* classification of a detected frame, or in the connection attempt of
\* MODE_ASCII_UART, or in a command Send_Data_To_Server sends once the
\* connection stands
C30_RequestTransmittedUnlessOverridden ==
    [][(response_status = SEND_REQUEST /\ response_status' # SEND_REQUEST)
          => \/ /\ pc = "request"
                /\ uart_tx' = Configure_ESP_As_Access_Point(St).uart_tx
                /\ obs'.sent_stage = setup_stage
             \/ /\ pc = "classify"
                /\ Frame_Detected(St)
             \/ /\ pc = "connect"
                /\ connection_established = 0
                /\ transmission_mode = MODE_ASCII_UART
             \/ /\ pc \in {"sds_entry", "sds_status", "sds_prompt"}
                /\ connection_established = 1
                /\ uart_tx' # uart_tx]_vars


C32_ReceptionAlwaysArmed ==
    /\ rx_ptr # NotArmed
    /\ rx_ptr = rx_index
    /\ rx_ptr \in 0 .. (RX_BUFFER_SIZE - 2)

\* the callback has wrapped the index while Send_Data_To_Server waits
\* for the prompt, and the next byte is on the wire
C32_Witness ==
    /\ pc = "sds_prompt"
    /\ rx_index = 0
    /\ rx_ptr = 0
    /\ rx_buffer[0] = "x"
    /\ rx_buffer[RX_BUFFER_SIZE - 2] = "x"
    /\ wire # <<>>


\* the third argument of strncpy(ssid, ...): the distance to the next
\* "&" when the frame holds one, sizeof(ssid) - 1 otherwise
Ssid_Copy_Length(buf) ==
    Bind(strstr(buf, S_SSID) + 5, LAMBDA ssid_start :
    Bind(StrStrAt(buf, ssid_start, S_AMP), LAMBDA end_ssid :
         IF end_ssid # NULL THEN end_ssid - ssid_start ELSE SSID_SIZE - 1))

\* the third argument of strncpy(password, ...), for a frame that holds
\* "password="
Password_Copy_Length(buf) ==
    Bind(strstr(buf, S_PASSWORD) + 9, LAMBDA password_start :
    Bind(StrStrAt(buf, password_start, S_SPACE), LAMBDA end_password :
         IF end_password # NULL THEN end_password - password_start
         ELSE PASSWORD_SIZE - 1))

(* C33: for every frame that holds a credential request,                 *)
(* Handle_Client_Request finds the password= marker and copies at most   *)
(* 31 bytes into ssid[32] and at most 63 bytes into password[64].        *)
C33_CopiesFitFields ==
    (pc = "classify" /\ strstr(rx_buffer, S_GET_SSID) # NULL)
        => /\ strstr(rx_buffer, S_PASSWORD) # NULL
           /\ Ssid_Copy_Length(rx_buffer) <= SSID_SIZE - 1
           /\ Password_Copy_Length(rx_buffer) <= PASSWORD_SIZE - 1

\* what the function computes: with a delimiter in the frame the copy
\* length is the length of the value, whatever the size of the field
C33_CopyLengthIsValueLength ==
    \A S \in RequestSsids, P \in RequestPasswords :
        (pc = "classify" /\ CStr(rx_buffer) = RequestFrame(S, P))
            => /\ Ssid_Copy_Length(rx_buffer) = Len(S)
               /\ Password_Copy_Length(rx_buffer) = Len(P)

====
